---- MODULE Spec2Model ----
(***************************************************************************)
(* Registry-and-MRV-System: the simple registry contract                   *)
(* (src/unnamed/part_000), the full registry contract                      *)
(* (src/contracts/BlueCarbon Registry.sol) and the REST API                *)
(* (src/routes/api.js), each modelled as a state machine.                  *)
(*                                                                         *)
(* A contract is one record holding its storage; every external function   *)
(* is a pure operator from (storage, msg.sender, block.timestamp,          *)
(* arguments) to the storage after the call.  A call whose require fails   *)
(* (or whose checked arithmetic panics) reverts, the storage is unchanged  *)
(* and no step is taken.                                                   *)
(***************************************************************************)
EXTENDS Integers, Sequences, FiniteSets, TLC

\* ------------------------------------------------------------------ bounds
NumAddresses == 2     \* accounts 1..NumAddresses; account 1 deploys
MaxProjects  == 2     \* project ids 1..MaxProjects
MaxMRV       == 2     \* MRV record ids 1..MaxMRV
MaxCarbon    == 2     \* carbonSequestration arguments 0..MaxCarbon
MaxArea      == 1     \* area / areaMonitored arguments 0..MaxArea
MaxTime      == 2     \* block.timestamp / Date.now() range 1..MaxTime
MaxStakeholders == 2  \* records of stakeholders.json

VARIABLES
    target,     \* which program this behaviour exercises
    now,        \* block.timestamp (contracts), Date.now() (REST API)
    simple,     \* storage of the simple registry contract
    full,       \* storage of the full registry contract
    rest,       \* the REST API's JSON files
    inflight,   \* the REST handler calls that have loaded and not yet saved
    limiter,    \* the closure of one validateRateLimit middleware
    api,        \* one BlockchainAPI object, its calls and the token contract
    lookup      \* arguments and results of the BlockchainAPI enum lookups

\* the state of the Node.js modules, which no contract and no handler that
\* runs in one piece touches
nodeVars == <<inflight, limiter, api, lookup>>

vars == <<target, now, simple, full, rest, nodeVars>>

Address   == 1..NumAddresses
ZeroAddr  == 0
Deployer  == 1
Applicant == Address \ {Deployer}   \* accounts that register as stakeholders
ProjectId == 1..MaxProjects
DataId    == 1..MaxMRV
StrLen    == 0..1            \* bytes(s).length of a string argument
Amount    == 0..MaxCarbon

\* uint256: the model's numbers stay far below 2^256, so checked additions
\* never panic; a checked decrement of 0 does.
RECURSIVE SumSeq(_)
SumSeq(s) == IF s = <<>> THEN 0 ELSE Head(s) + SumSeq(Tail(s))

(***************************************************************************)
(* The simple registry contract, src/unnamed/part_000                      *)
(***************************************************************************)
S_ProjectStatus == <<"Pending", "Active", "Verified", "Suspended">>
S_Statuses == {S_ProjectStatus[i] : i \in 1..Len(S_ProjectStatus)}

S_NoProject == [id |-> 0, owner |-> ZeroAddr, status |-> "Pending",
                verifiedAt |-> 0, actualCredits |-> 0]
S_NoStakeholder == [stakeholderAddress |-> ZeroAddr, approved |-> FALSE,
                    projectIds |-> <<>>]
S_NoMRVData == [projectId |-> 0, collector |-> ZeroAddr, timestamp |-> 0,
                carbonSequestration |-> 0, verified |-> FALSE,
                verifier |-> ZeroAddr, verifiedAt |-> 0]

\* constructor: the deployer gets ADMIN_ROLE and VERIFIER_ROLE
S_constructor ==
    [ paused                 |-> FALSE,
      ADMIN_ROLE             |-> {Deployer},
      VERIFIER_ROLE          |-> {Deployer},
      DATA_COLLECTOR_ROLE    |-> {},
      projects               |-> [p \in ProjectId |-> S_NoProject],
      stakeholders           |-> [a \in Address |-> S_NoStakeholder],
      projectMRVData         |-> [p \in ProjectId |-> <<>>],
      mrvDataById            |-> [d \in DataId |-> S_NoMRVData],
      nextProjectId          |-> 1,
      nextMRVDataId          |-> 1,
      totalProjects          |-> 0,
      totalVerifiedProjects  |-> 0,
      totalCarbonSequestered |-> 0 ]

\* mutant: the caller is not required to be an approved stakeholder
S_registerProject_ok_anyCaller(st, sender, nameLen, locationLen, area) ==
    /\ ~st.paused
    /\ nameLen > 0
    /\ locationLen > 0
    /\ area > 0

S_registerProject_ok(st, sender, nameLen, locationLen, area) ==
    /\ ~st.paused
    /\ nameLen > 0
    /\ locationLen > 0
    /\ area > 0
    /\ st.stakeholders[sender].approved

S_registerProject(st, sender, ts, nameLen, locationLen, area) ==
    IF ~S_registerProject_ok(st, sender, nameLen, locationLen, area) THEN st
    ELSE LET projectId == st.nextProjectId IN
         [st EXCEPT
            !.projects[projectId] =
                [id |-> projectId, owner |-> sender, status |-> "Pending",
                 verifiedAt |-> 0, actualCredits |-> 0],
            !.stakeholders[sender].projectIds = Append(@, projectId),
            !.totalProjects = @ + 1,
            !.nextProjectId = @ + 1]

S_registerStakeholder_ok(st, sender, nameLen, organizationLen) ==
    /\ ~st.paused
    /\ st.stakeholders[sender].stakeholderAddress = ZeroAddr
    /\ nameLen > 0
    /\ organizationLen > 0

S_registerStakeholder(st, sender, nameLen, organizationLen) ==
    IF ~S_registerStakeholder_ok(st, sender, nameLen, organizationLen) THEN st
    ELSE [st EXCEPT !.stakeholders[sender] =
             [stakeholderAddress |-> sender, approved |-> FALSE,
              projectIds |-> <<>>]]

S_approveStakeholder_ok(st, sender, stakeholder) ==
    /\ sender \in st.ADMIN_ROLE
    /\ st.stakeholders[stakeholder].stakeholderAddress # ZeroAddr
    /\ ~st.stakeholders[stakeholder].approved

S_approveStakeholder(st, sender, stakeholder) ==
    IF ~S_approveStakeholder_ok(st, sender, stakeholder) THEN st
    ELSE [st EXCEPT !.stakeholders[stakeholder].approved = TRUE,
                    !.DATA_COLLECTOR_ROLE = @ \cup {stakeholder}]

S_submitMRVData_ok(st, sender, projectId, dataHashLen, carbonSequestration) ==
    /\ sender \in st.DATA_COLLECTOR_ROLE
    /\ ~st.paused
    /\ st.projects[projectId].id # 0
    /\ st.projects[projectId].status = "Active"
    /\ dataHashLen > 0
    /\ carbonSequestration > 0

S_submitMRVData(st, sender, ts, projectId, dataHashLen, carbonSequestration) ==
    IF ~S_submitMRVData_ok(st, sender, projectId, dataHashLen,
                           carbonSequestration) THEN st
    ELSE LET dataId  == st.nextMRVDataId
             newData == [projectId |-> projectId, collector |-> sender,
                         timestamp |-> ts,
                         carbonSequestration |-> carbonSequestration,
                         verified |-> FALSE, verifier |-> ZeroAddr,
                         verifiedAt |-> 0]
         IN [st EXCEPT
                !.projectMRVData[projectId] = Append(@, newData),
                !.mrvDataById[dataId] = newData,
                !.nextMRVDataId = @ + 1]

\* mutant: a record that is verified already can be verified again
S_verifyMRVData_ok_again(st, sender, dataId) ==
    /\ sender \in st.VERIFIER_ROLE
    /\ st.mrvDataById[dataId].timestamp # 0

S_verifyMRVData_ok(st, sender, dataId) ==
    /\ sender \in st.VERIFIER_ROLE
    /\ st.mrvDataById[dataId].timestamp # 0
    /\ ~st.mrvDataById[dataId].verified

S_verifyMRVData(st, sender, ts, dataId) ==
    IF ~S_verifyMRVData_ok(st, sender, dataId) THEN st
    ELSE LET projectId == st.mrvDataById[dataId].projectId
             c         == st.mrvDataById[dataId].carbonSequestration
         IN [st EXCEPT
                !.mrvDataById[dataId].verified = TRUE,
                !.mrvDataById[dataId].verifier = sender,
                !.mrvDataById[dataId].verifiedAt = ts,
                !.projects[projectId].actualCredits = @ + c,
                !.totalCarbonSequestered = @ + c]

\* getProjectMRVData: the array of copies kept per project
S_getProjectMRVData(st, projectId) == st.projectMRVData[projectId]

\* verifyProject without its require on the status
S_verifyProject_ok_anyStatus(st, sender, projectId) ==
    /\ sender \in st.VERIFIER_ROLE
    /\ st.projects[projectId].id # 0

S_verifyProject_ok(st, sender, projectId) ==
    /\ sender \in st.VERIFIER_ROLE
    /\ st.projects[projectId].id # 0
    /\ st.projects[projectId].status \in {"Pending", "Active"}

\* The status is assigned first and tested afterwards (lines 238-243).
S_verifyProject(st, sender, ts, projectId) ==
    IF ~S_verifyProject_ok(st, sender, projectId) THEN st
    ELSE LET st1 == [st EXCEPT !.projects[projectId].status = "Verified",
                               !.projects[projectId].verifiedAt = ts]
         IN IF st1.projects[projectId].status # "Verified"
            THEN [st1 EXCEPT !.totalVerifiedProjects = @ + 1]
            ELSE st1

\* totalVerifiedProjects-- is checked arithmetic: it panics at 0.
S_changeProjectStatus_ok(st, sender, projectId, newStatus) ==
    /\ sender \in st.ADMIN_ROLE
    /\ st.projects[projectId].id # 0
    /\ st.projects[projectId].status # newStatus
    /\ (st.projects[projectId].status = "Verified" /\ newStatus # "Verified")
          => st.totalVerifiedProjects > 0

S_changeProjectStatus(st, sender, ts, projectId, newStatus) ==
    IF ~S_changeProjectStatus_ok(st, sender, projectId, newStatus) THEN st
    ELSE LET oldStatus == st.projects[projectId].status
             st1 == [st EXCEPT !.projects[projectId].status = newStatus]
         IN IF oldStatus = "Verified" /\ newStatus # "Verified"
            THEN [st1 EXCEPT !.totalVerifiedProjects = @ - 1]
            ELSE IF oldStatus # "Verified" /\ newStatus = "Verified"
            THEN [st1 EXCEPT !.totalVerifiedProjects = @ + 1,
                             !.projects[projectId].verifiedAt = ts]
            ELSE st1

S_pause_ok(st, sender) == sender \in st.ADMIN_ROLE /\ ~st.paused
S_pause(st, sender) ==
    IF S_pause_ok(st, sender) THEN [st EXCEPT !.paused = TRUE] ELSE st

S_unpause_ok(st, sender) == sender \in st.ADMIN_ROLE /\ st.paused
S_unpause(st, sender) ==
    IF S_unpause_ok(st, sender) THEN [st EXCEPT !.paused = FALSE] ELSE st

(***************************************************************************)
(* The full registry contract, src/contracts/BlueCarbon Registry.sol       *)
(***************************************************************************)
F_ProjectStatus ==
    <<"Pending", "Active", "Verified", "Suspended", "Completed", "Rejected">>
F_Statuses == {F_ProjectStatus[i] : i \in 1..Len(F_ProjectStatus)}
MRVStatus ==
    <<"Submitted", "UnderReview", "Verified", "Rejected", "RequiresUpdate">>
MRVStatuses == {MRVStatus[i] : i \in 1..Len(MRVStatus)}

ReputationStart     == 500
ReputationIncrement == 10
ReputationDecrement == 20
ReputationMax       == 1000
ComplianceStart     == 100

F_NoProject ==
    [id |-> 0, area |-> 0, owner |-> ZeroAddr, status |-> "Pending",
     lastUpdated |-> 0, verifiedAt |-> 0, verifiedBy |-> ZeroAddr,
     actualCarbonCredits |-> 0, totalAreaRestored |-> 0, isActive |-> FALSE]
F_NoStakeholder ==
    [id |-> 0, stakeholderAddress |-> ZeroAddr, isApproved |-> FALSE,
     isActive |-> FALSE, approvedAt |-> 0, approvedBy |-> ZeroAddr,
     ownedProjects |-> <<>>, reputationScore |-> 0]
F_NoMRVData ==
    [id |-> 0, projectId |-> 0, collector |-> ZeroAddr, timestamp |-> 0,
     carbonSequestration |-> 0, areaMonitored |-> 0, status |-> "Submitted",
     verifier |-> ZeroAddr, verifiedAt |-> 0, isValid |-> FALSE]
F_NoStats ==
    [totalMRVSubmissions |-> 0, verifiedMRVSubmissions |-> 0,
     lastMRVSubmission |-> 0, averageCarbonSequestration |-> 0,
     complianceScore |-> 0]

\* A mapping reads as its default value at a key never written.
F_project(st, p) ==
    IF p \in DOMAIN st.projects THEN st.projects[p] ELSE F_NoProject
F_stakeholder(st, s) ==
    IF s \in DOMAIN st.stakeholders THEN st.stakeholders[s]
    ELSE F_NoStakeholder
F_mrv(st, d) ==
    IF d \in DOMAIN st.mrvData THEN st.mrvData[d] ELSE F_NoMRVData

\* constructor
F_constructor ==
    [ paused                    |-> FALSE,
      ADMIN_ROLE                |-> {Deployer},
      VERIFIER_ROLE             |-> {Deployer},
      DATA_COLLECTOR_ROLE       |-> {},
      STAKEHOLDER_ROLE          |-> {},
      projects                  |-> <<>>,
      stakeholders              |-> <<>>,
      stakeholderByAddress      |-> [a \in Address |-> 0],
      mrvData                   |-> <<>>,
      projectMRVData            |-> <<>>,
      projectStats              |-> <<>>,
      totalProjects             |-> 0,
      totalVerifiedProjects     |-> 0,
      totalStakeholders         |-> 0,
      totalApprovedStakeholders |-> 0,
      totalCarbonSequestered    |-> 0,
      totalAreaUnderRestoration |-> 0 ]

\* Counters.Counter: current() is the number of ids handed out
F_projectIdCounter(st)     == Len(st.projects)
F_mrvDataIdCounter(st)     == Len(st.mrvData)
F_stakeholderIdCounter(st) == Len(st.stakeholders)

F_registerStakeholder_ok(st, sender, nameLen, organizationLen) ==
    /\ ~st.paused
    /\ nameLen > 0
    /\ organizationLen > 0
    /\ st.stakeholderByAddress[sender] = 0

F_registerStakeholder(st, sender, ts, nameLen, organizationLen) ==
    IF ~F_registerStakeholder_ok(st, sender, nameLen, organizationLen) THEN st
    ELSE LET stakeholderId == F_stakeholderIdCounter(st) + 1 IN
         [st EXCEPT
            !.stakeholders = Append(@,
                [id |-> stakeholderId, stakeholderAddress |-> sender,
                 isApproved |-> FALSE, isActive |-> TRUE, approvedAt |-> 0,
                 approvedBy |-> ZeroAddr, ownedProjects |-> <<>>,
                 reputationScore |-> ReputationStart]),
            !.stakeholderByAddress[sender] = stakeholderId,
            !.totalStakeholders = @ + 1]

F_approveStakeholder_ok(st, sender, stakeholderId) ==
    /\ sender \in st.ADMIN_ROLE
    /\ ~st.paused
    /\ F_stakeholder(st, stakeholderId).id # 0
    /\ ~F_stakeholder(st, stakeholderId).isApproved

F_approveStakeholder(st, sender, ts, stakeholderId) ==
    IF ~F_approveStakeholder_ok(st, sender, stakeholderId) THEN st
    ELSE LET a == st.stakeholders[stakeholderId].stakeholderAddress IN
         [st EXCEPT
            !.stakeholders[stakeholderId].isApproved = TRUE,
            !.stakeholders[stakeholderId].approvedAt = ts,
            !.stakeholders[stakeholderId].approvedBy = sender,
            !.STAKEHOLDER_ROLE = @ \cup {a},
            !.DATA_COLLECTOR_ROLE = @ \cup {a},
            !.totalApprovedStakeholders = @ + 1]

F_registerProject_ok(st, sender, nameLen, locationLen, area) ==
    /\ sender \in st.STAKEHOLDER_ROLE
    /\ ~st.paused
    /\ nameLen > 0
    /\ locationLen > 0
    /\ area > 0
    /\ st.stakeholderByAddress[sender] # 0
    /\ F_stakeholder(st, st.stakeholderByAddress[sender]).isApproved

F_registerProject(st, sender, ts, nameLen, locationLen, area) ==
    IF ~F_registerProject_ok(st, sender, nameLen, locationLen, area) THEN st
    ELSE LET stakeholderId == st.stakeholderByAddress[sender]
             projectId     == F_projectIdCounter(st) + 1
         IN [st EXCEPT
                !.projects = Append(@,
                    [id |-> projectId, area |-> area, owner |-> sender,
                     status |-> "Pending", lastUpdated |-> ts,
                     verifiedAt |-> 0, verifiedBy |-> ZeroAddr,
                     actualCarbonCredits |-> 0, totalAreaRestored |-> 0,
                     isActive |-> TRUE]),
                !.stakeholders[stakeholderId].ownedProjects =
                    Append(@, projectId),
                !.projectMRVData = Append(@, <<>>),
                !.projectStats = Append(@,
                    [F_NoStats EXCEPT !.complianceScore = ComplianceStart]),
                !.totalProjects = @ + 1,
                !.totalAreaUnderRestoration = @ + area]

F_updateProjectStatus_ok(st, sender, projectId, newStatus) ==
    /\ sender \in st.ADMIN_ROLE
    /\ ~st.paused
    /\ F_project(st, projectId).id # 0
    /\ F_project(st, projectId).isActive
    /\ F_project(st, projectId).status # newStatus
    /\ (F_project(st, projectId).status = "Verified"
           /\ newStatus # "Verified") => st.totalVerifiedProjects > 0

\* mutant: the counter is not decremented when a project leaves Verified
F_updateProjectStatus_noDecrement(st, sender, ts, projectId, newStatus) ==
    IF ~F_updateProjectStatus_ok(st, sender, projectId, newStatus) THEN st
    ELSE LET oldStatus == st.projects[projectId].status
             st1 == [st EXCEPT !.projects[projectId].status = newStatus,
                               !.projects[projectId].lastUpdated = ts]
         IN IF oldStatus # "Verified" /\ newStatus = "Verified"
            THEN [st1 EXCEPT !.totalVerifiedProjects = @ + 1,
                             !.projects[projectId].verifiedAt = ts,
                             !.projects[projectId].verifiedBy = sender]
            ELSE st1

F_updateProjectStatus(st, sender, ts, projectId, newStatus) ==
    IF ~F_updateProjectStatus_ok(st, sender, projectId, newStatus) THEN st
    ELSE LET oldStatus == st.projects[projectId].status
             st1 == [st EXCEPT !.projects[projectId].status = newStatus,
                               !.projects[projectId].lastUpdated = ts]
         IN IF oldStatus # "Verified" /\ newStatus = "Verified"
            THEN [st1 EXCEPT !.totalVerifiedProjects = @ + 1,
                             !.projects[projectId].verifiedAt = ts,
                             !.projects[projectId].verifiedBy = sender]
            ELSE IF oldStatus = "Verified" /\ newStatus # "Verified"
            THEN [st1 EXCEPT !.totalVerifiedProjects = @ - 1]
            ELSE st1

\* mutant: the project's status is not required to be Active or Verified
F_submitMRVData_ok_anyStatus(st, sender, projectId, dataHashLen, carbonSequestration) ==
    /\ sender \in st.DATA_COLLECTOR_ROLE
    /\ ~st.paused
    /\ F_project(st, projectId).id # 0
    /\ F_project(st, projectId).isActive
    /\ dataHashLen > 0
    /\ carbonSequestration > 0

F_submitMRVData_ok(st, sender, projectId, dataHashLen, carbonSequestration) ==
    /\ sender \in st.DATA_COLLECTOR_ROLE
    /\ ~st.paused
    /\ F_project(st, projectId).id # 0
    /\ F_project(st, projectId).isActive
    /\ F_project(st, projectId).status \in {"Active", "Verified"}
    /\ dataHashLen > 0
    /\ carbonSequestration > 0

F_submitMRVData(st, sender, ts, projectId, dataHashLen, carbonSequestration, areaMonitored) ==
    IF ~F_submitMRVData_ok(st, sender, projectId, dataHashLen,
                           carbonSequestration) THEN st
    ELSE LET dataId == F_mrvDataIdCounter(st) + 1 IN
         [st EXCEPT
            !.mrvData = Append(@,
                [id |-> dataId, projectId |-> projectId,
                 collector |-> sender, timestamp |-> ts,
                 carbonSequestration |-> carbonSequestration,
                 areaMonitored |-> areaMonitored, status |-> "Submitted",
                 verifier |-> ZeroAddr, verifiedAt |-> 0,
                 isValid |-> FALSE]),
            !.projectMRVData[projectId] = Append(@, dataId),
            !.projectStats[projectId].totalMRVSubmissions = @ + 1,
            !.projectStats[projectId].lastMRVSubmission = ts,
            !.projects[projectId].lastUpdated = ts]

\* _updateStakeholderReputation: the new score
\* mutant: the increment is not capped
F_newReputation_noCap(score, positive) ==
    IF positive
    THEN score + ReputationIncrement
    ELSE IF score < ReputationDecrement
         THEN 0 ELSE score - ReputationDecrement

\* mutant: the decrement is not floored
F_newReputation_noFloor(score, positive) ==
    IF positive
    THEN IF score + ReputationIncrement > ReputationMax
         THEN ReputationMax ELSE score + ReputationIncrement
    ELSE score - ReputationDecrement

F_newReputation(score, positive) ==
    IF positive
    THEN IF score + ReputationIncrement > ReputationMax
         THEN ReputationMax ELSE score + ReputationIncrement
    ELSE IF score < ReputationDecrement
         THEN 0 ELSE score - ReputationDecrement

F_updateStakeholderReputation(st, stakeholderAddress, positive) ==
    LET stakeholderId == st.stakeholderByAddress[stakeholderAddress] IN
    IF stakeholderId = 0 THEN st
    ELSE [st EXCEPT !.stakeholders[stakeholderId].reputationScore =
                        F_newReputation(@, positive)]

\* mutant: the record's status is not required to be undecided
F_verifyMRVData_ok_anyStatus(st, sender, dataId, verificationStatus) ==
    /\ sender \in st.VERIFIER_ROLE
    /\ ~st.paused
    /\ F_mrv(st, dataId).id # 0
    /\ verificationStatus # "Submitted"

F_verifyMRVData_ok(st, sender, dataId, verificationStatus) ==
    /\ sender \in st.VERIFIER_ROLE
    /\ ~st.paused
    /\ F_mrv(st, dataId).id # 0
    /\ F_mrv(st, dataId).status \in {"Submitted", "UnderReview"}
    /\ verificationStatus # "Submitted"

\* lines 522-537: the average over the project's records with isValid
F_averageCarbonSequestration(st, projectId, old) ==
    LET dataIds == st.projectMRVData[projectId]
        valid   == SelectSeq(dataIds, LAMBDA d : st.mrvData[d].isValid)
        totalSequestration ==
            SumSeq([i \in 1..Len(valid) |->
                        st.mrvData[valid[i]].carbonSequestration])
    IN IF Len(valid) > 0 THEN totalSequestration \div Len(valid) ELSE old

\* mutant: the project is credited whatever the decision is
F_verifyMRVData_anyDecision(st, sender, ts, dataId, verificationStatus) ==
    IF ~F_verifyMRVData_ok(st, sender, dataId, verificationStatus) THEN st
    ELSE LET st1 == [st EXCEPT
                        !.mrvData[dataId].status = verificationStatus,
                        !.mrvData[dataId].verifier = sender,
                        !.mrvData[dataId].verifiedAt = ts,
                        !.mrvData[dataId].isValid =
                            (verificationStatus = "Verified")]
             data      == st1.mrvData[dataId]
             projectId == data.projectId
             st2 == [st1 EXCEPT
                        !.projects[projectId].actualCarbonCredits =
                            @ + data.carbonSequestration,
                        !.totalCarbonSequestered =
                            @ + data.carbonSequestration,
                        !.projects[projectId].totalAreaRestored =
                            @ + data.areaMonitored]
         IN IF verificationStatus = "Verified"
            THEN F_updateStakeholderReputation(
                     [st2 EXCEPT
                        !.projectStats[projectId].verifiedMRVSubmissions =
                            @ + 1],
                     st2.projects[projectId].owner, TRUE)
            ELSE IF verificationStatus = "Rejected"
            THEN F_updateStakeholderReputation(
                     st2, st2.projects[projectId].owner, FALSE)
            ELSE st2

F_verifyMRVData(st, sender, ts, dataId, verificationStatus) ==
    IF ~F_verifyMRVData_ok(st, sender, dataId, verificationStatus) THEN st
    ELSE LET st1 == [st EXCEPT
                        !.mrvData[dataId].status = verificationStatus,
                        !.mrvData[dataId].verifier = sender,
                        !.mrvData[dataId].verifiedAt = ts,
                        !.mrvData[dataId].isValid =
                            (verificationStatus = "Verified")]
             data      == st1.mrvData[dataId]
             projectId == data.projectId
         IN IF verificationStatus = "Verified"
            THEN LET st2 == [st1 EXCEPT
                        !.projectStats[projectId].verifiedMRVSubmissions =
                            @ + 1,
                        !.projects[projectId].actualCarbonCredits =
                            @ + data.carbonSequestration,
                        !.totalCarbonSequestered =
                            @ + data.carbonSequestration,
                        !.projects[projectId].totalAreaRestored =
                            @ + data.areaMonitored]
                     st3 == [st2 EXCEPT
                        !.projectStats[projectId].averageCarbonSequestration =
                            F_averageCarbonSequestration(st2, projectId, @)]
                     stats == st3.projectStats[projectId]
                     st4 == IF stats.totalMRVSubmissions > 0
                            THEN [st3 EXCEPT
                                   !.projectStats[projectId].complianceScore =
                                     (stats.verifiedMRVSubmissions * 100)
                                        \div stats.totalMRVSubmissions]
                            ELSE st3
                 IN F_updateStakeholderReputation(
                        st4, st4.projects[projectId].owner, TRUE)
            ELSE IF verificationStatus = "Rejected"
            THEN F_updateStakeholderReputation(
                     st1, st1.projects[projectId].owner, FALSE)
            ELSE st1

F_deactivateProject_ok(st, sender, projectId) ==
    /\ sender \in st.ADMIN_ROLE
    /\ F_project(st, projectId).id # 0

F_deactivateProject(st, sender, ts, projectId) ==
    IF ~F_deactivateProject_ok(st, sender, projectId) THEN st
    ELSE [st EXCEPT !.projects[projectId].isActive = FALSE,
                    !.projects[projectId].lastUpdated = ts]

F_deactivateStakeholder_ok(st, sender, stakeholderId) ==
    /\ sender \in st.ADMIN_ROLE
    /\ F_stakeholder(st, stakeholderId).id # 0

F_deactivateStakeholder(st, sender, stakeholderId) ==
    IF ~F_deactivateStakeholder_ok(st, sender, stakeholderId) THEN st
    ELSE LET a == st.stakeholders[stakeholderId].stakeholderAddress IN
         [st EXCEPT !.stakeholders[stakeholderId].isActive = FALSE,
                    !.STAKEHOLDER_ROLE = @ \ {a},
                    !.DATA_COLLECTOR_ROLE = @ \ {a}]

F_pauseContract_ok(st, sender) == sender \in st.ADMIN_ROLE /\ ~st.paused
F_pauseContract(st, sender) ==
    IF F_pauseContract_ok(st, sender) THEN [st EXCEPT !.paused = TRUE] ELSE st

F_unpauseContract_ok(st, sender) == sender \in st.ADMIN_ROLE /\ st.paused
F_unpauseContract(st, sender) ==
    IF F_unpauseContract_ok(st, sender) THEN [st EXCEPT !.paused = FALSE]
    ELSE st

(***************************************************************************)
(* Storage after a longer history.  The reputation score moves by 10 or 20 *)
(* per decided record and starts at 500, so its limits lie dozens of       *)
(* records away from the constructor.  The seeded storages below are what  *)
(* the contract holds after account 2 registered and was approved,         *)
(* registered projects 1 and 2, both were made Active, and SeedRecords     *)
(* records were submitted for project 1 and decided one after the other:   *)
(* every step is one of the calls above.  MaxMRV bounds the records        *)
(* submitted after that; from a seeded storage the behaviours go on with   *)
(* submissions and verifications only.                                     *)
(***************************************************************************)
SeedOwner == Deployer + 1

F_SeedProject ==
    LET s1 == F_registerStakeholder(F_constructor, SeedOwner, 1, 1, 1)
        s2 == F_approveStakeholder(s1, Deployer, 1, 1)
        s3 == F_registerProject(s2, SeedOwner, 1, 1, 1, 1)
        s4 == F_updateProjectStatus(s3, Deployer, 1, 1, "Active")
        s5 == F_registerProject(s4, SeedOwner, 1, 1, 1, 1)
    IN F_updateProjectStatus(s5, Deployer, 1, 2, "Active")

\* n more records on project 1, each submitted and then decided
RECURSIVE F_Decide(_, _, _)
F_Decide(st, n, verificationStatus) ==
    IF n = 0 THEN st
    ELSE LET s1 == F_submitMRVData(F_Decide(st, n - 1, verificationStatus),
                                   SeedOwner, 1, 1, 1, 1, 1)
         IN F_verifyMRVData(s1, Deployer, 1, F_mrvDataIdCounter(s1),
                            verificationStatus)

\* one verification below ReputationMax
SeedRecords ==
    (ReputationMax - ReputationStart) \div ReputationIncrement - 1
SeedChunk == (SeedRecords - 1) \div 4

\* SeedRecords verified records: score ReputationMax - ReputationIncrement
F_Verified1 == F_Decide(F_SeedProject, SeedChunk, "Verified")
F_Verified2 == F_Decide(F_Verified1, SeedChunk, "Verified")
F_Verified3 == F_Decide(F_Verified2, SeedChunk, "Verified")
F_Verified4 == F_Decide(F_Verified3, SeedChunk, "Verified")
F_SeededHigh ==
    F_Decide(F_Verified4, SeedRecords - 4 * SeedChunk, "Verified")

\* SeedRecords - 1 rejected records (score 0), then one verified: score
\* ReputationIncrement, below ReputationDecrement
F_Rejected1 == F_Decide(F_SeedProject, SeedChunk, "Rejected")
F_Rejected2 == F_Decide(F_Rejected1, SeedChunk, "Rejected")
F_Rejected3 == F_Decide(F_Rejected2, SeedChunk, "Rejected")
F_Rejected4 == F_Decide(F_Rejected3, SeedChunk, "Rejected")
F_SeededLow ==
    F_Decide(F_Decide(F_Rejected4, SeedRecords - 4 * SeedChunk - 1,
                      "Rejected"), 1, "Verified")

F_SeededStates == {F_SeededHigh, F_SeededLow}

F_seededRecords(st) ==
    IF F_mrvDataIdCounter(st) >= SeedRecords THEN SeedRecords ELSE 0

(***************************************************************************)
(* The REST API, src/routes/api.js with src/middleware/validation.js.      *)
(* rest holds the JSON files under ./data, each an array of records.  A    *)
(* handler is an operator from (files, Date.now(), request) to the files   *)
(* after the request and the response's status code.  An id is             *)
(* Date.now().toString(): the clock value, as a number.  A field a record  *)
(* does not have (undefined) reads 0.                                      *)
(***************************************************************************)
MinNameLen == 3
R_StrLen   == {0, MinNameLen}
AdminActions == {"approve", "reject", "suspend", "activate", "verify"}
Actions      == AdminActions \cup {"delete"}
RecordId     == 1..MaxTime

\* the files before the first request: none exists, each reads []
R_empty ==
    [projects |-> <<>>, mrv_data |-> <<>>, mobile_data |-> <<>>,
     stakeholders |-> <<>>, notifications |-> <<>>,
     carbon_credits |-> <<>>]

\* notifications.json is written by no handler but PUT
\* /notifications/:id/read: its records are put there from outside
R_ProvisionedNotifications ==
    {<<>>, <<[id |-> 1, read |-> FALSE, readAt |-> 0]>>}

\* mutant: an id that is not there finds the first record
R_findIndex_first(records, id) ==
    IF \E i \in 1..Len(records) : records[i].id = id
    THEN CHOOSE i \in 1..Len(records) :
            /\ records[i].id = id
            /\ \A j \in 1..(i - 1) : records[j].id # id
    ELSE IF Len(records) > 0 THEN 1 ELSE 0

\* Array.prototype.findIndex with d => d.id === id; 0 for -1
R_findIndex(records, id) ==
    IF \E i \in 1..Len(records) : records[i].id = id
    THEN CHOOSE i \in 1..Len(records) :
            /\ records[i].id = id
            /\ \A j \in 1..(i - 1) : records[j].id # id
    ELSE 0

R_countStatus(records, status) ==
    Len(SelectSeq(records, LAMBDA r : r.status = status))

\* The body of POST /projects: the validated fields, and the fields a
\* client may add (id, status, actualCredits; 0 and "" when it adds none)
ProjectBody ==
    [nameLen : R_StrLen, locationLen : R_StrLen, area : 0..MaxArea,
     id : {0} \cup RecordId, status : {"", "verified"},
     actualCredits : {0, MaxCarbon}]

\* The body of POST /mrv-data, likewise
MrvBody ==
    [projectId : {0} \cup RecordId, wellFormed : BOOLEAN,
     carbonSequestration : Amount, id : {0} \cup RecordId]

\* validateProjectRegistration without its test of the area
R_validateProjectRegistration_noArea(body) ==
    /\ body.nameLen >= MinNameLen
    /\ body.locationLen >= MinNameLen

\* validateProjectRegistration: name and location of 3..200 characters,
\* area a number >= 0.1 (whole hectares here)
R_validateProjectRegistration(body) ==
    /\ body.nameLen >= MinNameLen
    /\ body.locationLen >= MinNameLen
    /\ body.area >= 1

\* validateAdminAction: a listed action, a target id, a well-formed address
R_validateAdminAction(body) ==
    /\ body.action \in AdminActions
    /\ body.targetId # 0
    /\ body.adminAddress # ZeroAddr

\* validateMRVData: projectId not empty, carbonSequestration >= 0
R_validateMRVData(body) ==
    /\ body.projectId # 0
    /\ body.wellFormed
    /\ body.carbonSequestration >= 0

\* POST /projects keeping the status and actualCredits of the body
R_postProjects_asSent(st, ts, body) ==
    IF ~R_validateProjectRegistration(body) THEN [st |-> st, status |-> 400]
    ELSE [st |-> [st EXCEPT !.projects = Append(@,
                    [id |-> IF body.id # 0 THEN body.id ELSE ts,
                     status |-> body.status,
                     actualCredits |-> body.actualCredits,
                     createdAt |-> ts, verifiedAt |-> 0, approvedAt |-> 0,
                     rejectedAt |-> 0, suspendedAt |-> 0,
                     lastModified |-> 0])],
          status |-> 201]

\* POST /projects
R_postProjects(st, ts, body) ==
    IF ~R_validateProjectRegistration(body) THEN [st |-> st, status |-> 400]
    ELSE LET \* { id: Date.now().toString(), ...req.body,
             spread ==
                [id |-> IF body.id # 0 THEN body.id ELSE ts,
                 status |-> body.status,
                 actualCredits |-> body.actualCredits,
                 createdAt |-> 0, verifiedAt |-> 0, approvedAt |-> 0,
                 rejectedAt |-> 0, suspendedAt |-> 0, lastModified |-> 0]
             \*   status: 'pending', createdAt: ..., actualCredits: 0 }
             newProject ==
                [spread EXCEPT !.status = "pending", !.createdAt = ts,
                               !.actualCredits = 0]
         IN [st |-> [st EXCEPT !.projects = Append(@, newProject)],
             status |-> 201]

\* PUT /projects/:id/status
R_putProjectStatus(st, ts, id, body) ==
    IF ~R_validateAdminAction(body) THEN [st |-> st, status |-> 400]
    ELSE LET projectIndex == R_findIndex(st.projects, id) IN
         IF projectIndex = 0 THEN [st |-> st, status |-> 404]
         ELSE LET project == st.projects[projectIndex]
                  changed ==
                    CASE body.action = "verify" ->
                           [project EXCEPT !.status = "verified",
                                           !.verifiedAt = ts]
                      [] body.action = "approve" ->
                           [project EXCEPT !.status = "active",
                                           !.approvedAt = ts]
                      [] body.action = "reject" ->
                           [project EXCEPT !.status = "rejected",
                                           !.rejectedAt = ts]
                      [] body.action = "suspend" ->
                           [project EXCEPT !.status = "suspended",
                                           !.suspendedAt = ts]
                      [] OTHER -> project
              IN IF body.action \notin
                        {"verify", "approve", "reject", "suspend"}
                 THEN [st |-> st, status |-> 400]
                 ELSE [st |-> [st EXCEPT !.projects[projectIndex] =
                                  [changed EXCEPT !.lastModified = ts]],
                       status |-> 200]

\* POST /mrv-data
R_postMrvData(st, ts, body) ==
    IF ~R_validateMRVData(body) THEN [st |-> st, status |-> 400]
    ELSE LET newMRVEntry ==
                [id |-> IF body.id # 0 THEN body.id ELSE ts,
                 projectId |-> body.projectId,
                 carbonSequestration |-> body.carbonSequestration,
                 timestamp |-> ts, status |-> "pending_verification",
                 verified |-> FALSE, verifiedAt |-> 0,
                 verifiedBy |-> ZeroAddr]
         IN [st |-> [st EXCEPT !.mrv_data = Append(@, newMRVEntry)],
             status |-> 201]

\* PUT /mrv-data/:id/verify
R_putMrvDataVerify(st, ts, id, body) ==
    IF ~R_validateAdminAction(body) THEN [st |-> st, status |-> 400]
    ELSE LET dataIndex == R_findIndex(st.mrv_data, id) IN
         IF dataIndex = 0 THEN [st |-> st, status |-> 404]
         ELSE [st |-> [st EXCEPT
                        !.mrv_data[dataIndex].verified = TRUE,
                        !.mrv_data[dataIndex].verifiedAt = ts,
                        !.mrv_data[dataIndex].verifiedBy = body.adminAddress,
                        !.mrv_data[dataIndex].status = "verified"],
               status |-> 200]

\* validateStakeholderRegistration: name of 2..100 characters, the other
\* fields well formed
MinStakeholderNameLen == 2
R_validateStakeholderRegistration(body) ==
    /\ body.nameLen >= MinStakeholderNameLen
    /\ body.wellFormed

\* POST /api/stakeholder/register
R_postStakeholderRegister(st, ts, body) ==
    IF ~R_validateStakeholderRegistration(body)
    THEN [st |-> st, status |-> 400]
    ELSE LET stakeholder ==
                [id |-> ts, registrationDate |-> ts,
                 status |-> "pending_approval", approvedAt |-> 0,
                 approvedBy |-> ZeroAddr]
         IN [st |-> [st EXCEPT !.stakeholders = Append(@, stakeholder)],
             status |-> 200]

\* PUT /stakeholders/:id/approve
R_putStakeholderApprove(st, ts, id, body) ==
    IF ~R_validateAdminAction(body) THEN [st |-> st, status |-> 400]
    ELSE LET stakeholderIndex == R_findIndex(st.stakeholders, id) IN
         IF stakeholderIndex = 0 THEN [st |-> st, status |-> 404]
         ELSE [st |-> [st EXCEPT
                  !.stakeholders[stakeholderIndex].status = "approved",
                  !.stakeholders[stakeholderIndex].approvedAt = ts,
                  !.stakeholders[stakeholderIndex].approvedBy =
                      body.adminAddress],
               status |-> 200]

\* PUT /notifications/:id/read
R_putNotificationRead(st, ts, id) ==
    LET notificationIndex == R_findIndex(st.notifications, id) IN
    IF notificationIndex = 0 THEN [st |-> st, status |-> 404]
    ELSE [st |-> [st EXCEPT
             !.notifications[notificationIndex].read = TRUE,
             !.notifications[notificationIndex].readAt = ts],
          status |-> 200]

\* GET /mrv-data?projectId=&page=&limit= (0: the parameter is not given):
\* a page of mobile_data.json
DefaultLimit == 10
R_getMrvData(st, projectId, pageParam, limitParam) ==
    LET mrvData      == st.mobile_data
        filteredData == IF projectId # 0
                        THEN SelectSeq(mrvData,
                                 LAMBDA d : d.projectId = projectId)
                        ELSE mrvData
        page       == IF pageParam # 0 THEN pageParam ELSE 1
        limit      == IF limitParam # 0 THEN limitParam ELSE DefaultLimit
        startIndex == (page - 1) * limit
        endIndex   == page * limit
        last       == IF endIndex < Len(filteredData) THEN endIndex
                      ELSE Len(filteredData)
    IN [status |-> 200,
        data |-> SubSeq(filteredData, startIndex + 1, last),
        totalItems |-> Len(filteredData)]

\* mutant: verifiedProjects counts the projects that were ever verified
R_getAnalyticsOverview_everVerified(st) ==
    [status |-> 200,
     analytics |->
       [totalProjects    |-> Len(st.projects),
        verifiedProjects |->
            Len(SelectSeq(st.projects, LAMBDA p : p.verifiedAt # 0)),
        pendingProjects  |->
            R_countStatus(st.projects, "pending"),
        activeProjects   |->
            R_countStatus(st.projects, "active"),
        totalMRVSubmissions |-> Len(st.mobile_data),
        verifiedMRVData  |->
            R_countStatus(st.mobile_data, "verified"),
        pendingMRVData   |->
            R_countStatus(st.mobile_data, "pending_verification")]]

\* GET /analytics/overview: the counts of projects and MRV records
R_getAnalyticsOverview(st) ==
    LET projects == st.projects
        mrvData  == st.mobile_data
    IN [status |-> 200,
        analytics |->
          [totalProjects    |-> Len(projects),
           verifiedProjects |->
               R_countStatus(projects, "verified"),
           pendingProjects  |->
               R_countStatus(projects, "pending"),
           activeProjects   |->
               R_countStatus(projects, "active"),
           totalMRVSubmissions |-> Len(mrvData),
           verifiedMRVData  |->
               R_countStatus(mrvData, "verified"),
           pendingMRVData   |->
               R_countStatus(mrvData, "pending_verification")]]

\* ------------------------------------------------- actions, simple contract
\* A step is a call that did not revert; a reverted call leaves the storage
\* as it was (the operators above return st) and is no step.
SimpleRegisterStakeholder ==
    \E sender \in Applicant, nameLen \in StrLen, organizationLen \in StrLen :
        /\ target = "simple"
        /\ S_registerStakeholder_ok(simple, sender, nameLen, organizationLen)
        /\ simple' = S_registerStakeholder(simple, sender, nameLen,
                                           organizationLen)
        /\ UNCHANGED <<nodeVars, target, now, full, rest>>

SimpleApproveStakeholder ==
    \E sender \in Address, stakeholder \in Address :
        /\ target = "simple"
        /\ S_approveStakeholder_ok(simple, sender, stakeholder)
        /\ simple' = S_approveStakeholder(simple, sender, stakeholder)
        /\ UNCHANGED <<nodeVars, target, now, full, rest>>

SimpleRegisterProject ==
    \E sender \in Address, nameLen \in StrLen, locationLen \in StrLen,
       area \in 0..1 :
        /\ target = "simple"
        /\ simple.nextProjectId <= MaxProjects
        /\ S_registerProject_ok(simple, sender, nameLen, locationLen, area)
        /\ simple' = S_registerProject(simple, sender, now, nameLen,
                                       locationLen, area)
        /\ UNCHANGED <<nodeVars, target, now, full, rest>>

SimpleSubmitMRVData ==
    \E sender \in Address, projectId \in ProjectId, dataHashLen \in StrLen,
       carbonSequestration \in Amount :
        /\ target = "simple"
        /\ simple.nextMRVDataId <= MaxMRV
        /\ S_submitMRVData_ok(simple, sender, projectId, dataHashLen,
                              carbonSequestration)
        /\ simple' = S_submitMRVData(simple, sender, now, projectId,
                                     dataHashLen, carbonSequestration)
        /\ UNCHANGED <<nodeVars, target, now, full, rest>>

SimpleVerifyMRVData ==
    \E sender \in Address, dataId \in DataId :
        /\ target = "simple"
        /\ S_verifyMRVData_ok(simple, sender, dataId)
        /\ simple' = S_verifyMRVData(simple, sender, now, dataId)
        /\ UNCHANGED <<nodeVars, target, now, full, rest>>

SimpleVerifyProject ==
    \E sender \in Address, projectId \in ProjectId :
        /\ target = "simple"
        /\ S_verifyProject_ok(simple, sender, projectId)
        /\ simple' = S_verifyProject(simple, sender, now, projectId)
        /\ UNCHANGED <<nodeVars, target, now, full, rest>>

SimpleChangeProjectStatus ==
    \E sender \in Address, projectId \in ProjectId,
       newStatus \in S_Statuses :
        /\ target = "simple"
        /\ S_changeProjectStatus_ok(simple, sender, projectId, newStatus)
        /\ simple' = S_changeProjectStatus(simple, sender, now, projectId,
                                           newStatus)
        /\ UNCHANGED <<nodeVars, target, now, full, rest>>

SimplePause ==
    \E sender \in Address :
        /\ target = "simple"
        /\ S_pause_ok(simple, sender)
        /\ simple' = S_pause(simple, sender)
        /\ UNCHANGED <<nodeVars, target, now, full, rest>>

SimpleUnpause ==
    \E sender \in Address :
        /\ target = "simple"
        /\ S_unpause_ok(simple, sender)
        /\ simple' = S_unpause(simple, sender)
        /\ UNCHANGED <<nodeVars, target, now, full, rest>>

\* --------------------------------------------------- actions, full contract
FullRegisterStakeholder ==
    \E sender \in Applicant, nameLen \in StrLen, organizationLen \in StrLen :
        /\ target = "full"
        /\ F_registerStakeholder_ok(full, sender, nameLen, organizationLen)
        /\ full' = F_registerStakeholder(full, sender, now, nameLen,
                                         organizationLen)
        /\ UNCHANGED <<nodeVars, target, now, simple, rest>>

FullApproveStakeholder ==
    \E sender \in Address, stakeholderId \in Address :
        /\ target = "full"
        /\ F_approveStakeholder_ok(full, sender, stakeholderId)
        /\ full' = F_approveStakeholder(full, sender, now, stakeholderId)
        /\ UNCHANGED <<nodeVars, target, now, simple, rest>>

FullRegisterProject ==
    \E sender \in Address, nameLen \in StrLen, locationLen \in StrLen,
       area \in 0..MaxArea :
        /\ target = "full"
        /\ F_projectIdCounter(full) < MaxProjects
        /\ F_registerProject_ok(full, sender, nameLen, locationLen, area)
        /\ full' = F_registerProject(full, sender, now, nameLen, locationLen,
                                     area)
        /\ UNCHANGED <<nodeVars, target, now, simple, rest>>

FullUpdateProjectStatus ==
    \E sender \in Address, projectId \in ProjectId, newStatus \in F_Statuses :
        /\ target = "full"
        /\ F_updateProjectStatus_ok(full, sender, projectId, newStatus)
        /\ full' = F_updateProjectStatus(full, sender, now, projectId,
                                         newStatus)
        /\ UNCHANGED <<nodeVars, target, now, simple, rest>>

FullSubmitMRVData ==
    \E sender \in Address, projectId \in ProjectId, dataHashLen \in StrLen,
       carbonSequestration \in Amount, areaMonitored \in 1..MaxArea :
        /\ target = "full"
        /\ F_mrvDataIdCounter(full) - F_seededRecords(full) < MaxMRV
        /\ F_submitMRVData_ok(full, sender, projectId, dataHashLen,
                              carbonSequestration)
        /\ full' = F_submitMRVData(full, sender, now, projectId, dataHashLen,
                                   carbonSequestration, areaMonitored)
        /\ UNCHANGED <<nodeVars, target, now, simple, rest>>

FullVerifyMRVData ==
    \E sender \in Address, dataId \in DOMAIN full.mrvData,
       verificationStatus \in MRVStatuses :
        /\ target = "full"
        /\ F_verifyMRVData_ok(full, sender, dataId, verificationStatus)
        /\ full' = F_verifyMRVData(full, sender, now, dataId,
                                   verificationStatus)
        /\ UNCHANGED <<nodeVars, target, now, simple, rest>>

FullDeactivateProject ==
    \E sender \in Address, projectId \in ProjectId :
        /\ target = "full"
        /\ F_deactivateProject_ok(full, sender, projectId)
        /\ full' = F_deactivateProject(full, sender, now, projectId)
        /\ UNCHANGED <<nodeVars, target, now, simple, rest>>

FullDeactivateStakeholder ==
    \E sender \in Address, stakeholderId \in Address :
        /\ target = "full"
        /\ F_deactivateStakeholder_ok(full, sender, stakeholderId)
        /\ full' = F_deactivateStakeholder(full, sender, stakeholderId)
        /\ UNCHANGED <<nodeVars, target, now, simple, rest>>

FullPauseContract ==
    \E sender \in Address :
        /\ target = "full"
        /\ F_pauseContract_ok(full, sender)
        /\ full' = F_pauseContract(full, sender)
        /\ UNCHANGED <<nodeVars, target, now, simple, rest>>

FullUnpauseContract ==
    \E sender \in Address :
        /\ target = "full"
        /\ F_unpauseContract_ok(full, sender)
        /\ full' = F_unpauseContract(full, sender)
        /\ UNCHANGED <<nodeVars, target, now, simple, rest>>

\* --------------------------------------------------------- actions, REST API
AdminBody ==
    [action : Actions, targetId : 0..1, adminAddress : {ZeroAddr} \cup Address]

PostProjects ==
    \E body \in ProjectBody :
        /\ target = "rest"
        /\ Len(rest.projects) < MaxProjects
        /\ rest' = R_postProjects(rest, now, body).st
        /\ UNCHANGED <<nodeVars, target, now, simple, full>>

PutProjectStatus ==
    \E id \in RecordId, body \in AdminBody :
        /\ target = "rest"
        /\ rest' = R_putProjectStatus(rest, now, id, body).st
        /\ UNCHANGED <<nodeVars, target, now, simple, full>>

PostMrvData ==
    \E body \in MrvBody :
        /\ target = "rest"
        /\ Len(rest.mrv_data) < MaxMRV
        /\ rest' = R_postMrvData(rest, now, body).st
        /\ UNCHANGED <<nodeVars, target, now, simple, full>>

PutMrvDataVerify ==
    \E id \in RecordId, body \in AdminBody :
        /\ target = "rest"
        /\ rest' = R_putMrvDataVerify(rest, now, id, body).st
        /\ UNCHANGED <<nodeVars, target, now, simple, full>>

PostStakeholderRegister ==
    \E body \in [nameLen : {0, MinStakeholderNameLen}, wellFormed : BOOLEAN] :
        /\ target = "rest"
        /\ Len(rest.stakeholders) < MaxStakeholders
        /\ rest' = R_postStakeholderRegister(rest, now, body).st
        /\ UNCHANGED <<nodeVars, target, now, simple, full>>

PutStakeholderApprove ==
    \E id \in RecordId, body \in AdminBody :
        /\ target = "rest"
        /\ rest' = R_putStakeholderApprove(rest, now, id, body).st
        /\ UNCHANGED <<nodeVars, target, now, simple, full>>

PutNotificationRead ==
    \E id \in RecordId :
        /\ target = "rest"
        /\ rest' = R_putNotificationRead(rest, now, id).st
        /\ UNCHANGED <<nodeVars, target, now, simple, full>>

GetMrvData ==
    \E projectId \in {0} \cup RecordId, page \in 0..MaxMRV,
       limit \in 0..MaxMRV :
        /\ target = "rest"
        /\ R_getMrvData(rest, projectId, page, limit).status = 200
        /\ UNCHANGED vars

GetAnalyticsOverview ==
    /\ target = "rest"
    /\ R_getAnalyticsOverview(rest).status = 200
    /\ UNCHANGED vars

\* block.timestamp / Date.now() advances between calls
Tick ==
    /\ now < MaxTime
    /\ now' = now + 1
    /\ UNCHANGED <<nodeVars, target, simple, full, rest>>

\* no handler call is in flight and no module object has been constructed
InitNode ==
    /\ inflight = <<>>
    /\ limiter = <<>>
    /\ api = <<>>
    /\ lookup = <<>>

InitCommon ==
    /\ now = 1
    /\ simple = S_constructor
    /\ rest = R_empty
    /\ InitNode

InitSimple == target = "simple" /\ InitCommon /\ full = F_constructor

NextSimple ==
    \/ SimpleRegisterStakeholder
    \/ SimpleApproveStakeholder
    \/ SimpleRegisterProject
    \/ SimpleSubmitMRVData
    \/ SimpleVerifyMRVData
    \/ SimpleVerifyProject
    \/ SimpleChangeProjectStatus
    \/ SimplePause
    \/ SimpleUnpause

\* No function of either contract reads block.timestamp in a condition, so
\* the contracts' behaviours keep it fixed.
SpecSimple == InitSimple /\ [][NextSimple]_vars

InitFull == target = "full" /\ InitCommon /\ full = F_constructor

InitFullSeeded ==
    target = "full" /\ InitCommon /\ full \in {F_constructor} \cup F_SeededStates

NextFull ==
    \/ FullRegisterStakeholder
    \/ FullApproveStakeholder
    \/ FullRegisterProject
    \/ FullUpdateProjectStatus
    \/ FullSubmitMRVData
    \/ FullVerifyMRVData
    \/ FullDeactivateProject

SpecFull == InitFull /\ [][NextFull]_vars

\* the same contract, started from the constructor or from a seeded storage
NextFullSeeded ==
    \/ F_seededRecords(full) = 0 /\ NextFull
    \/ F_seededRecords(full) > 0 /\ (FullSubmitMRVData \/ FullVerifyMRVData)

SpecFullSeeded == InitFullSeeded /\ [][NextFullSeeded]_vars

InitRest == target = "rest" /\ InitCommon /\ full = F_constructor

\* Every handler reads and writes one file.  The requests on projects.json:
NextRestProjects ==
    \/ PostProjects
    \/ PutProjectStatus
    \/ GetAnalyticsOverview
    \/ Tick

SpecRestProjects == InitRest /\ [][NextRestProjects]_vars

\* The requests on mrv_data.json, with projects to submit against:
NextRestMrv ==
    \/ PostProjects
    \/ PostMrvData
    \/ PutMrvDataVerify
    \/ GetAnalyticsOverview
    \/ GetMrvData
    \/ Tick

SpecRestMrv == InitRest /\ [][NextRestMrv]_vars

\* The requests on stakeholders.json and notifications.json:
InitRestStakeholders ==
    /\ target = "rest"
    /\ now = 1
    /\ simple = S_constructor
    /\ full = F_constructor
    /\ InitNode
    /\ \E n \in R_ProvisionedNotifications :
          rest = [R_empty EXCEPT !.notifications = n]

NextRestStakeholders ==
    \/ PostStakeholderRegister
    \/ PutStakeholderApprove
    \/ PutNotificationRead
    \/ Tick

SpecRestStakeholders ==
    InitRestStakeholders /\ [][NextRestStakeholders]_vars

\* The four transition requests, on files that hold one record each, all
\* created at time 1:
R_Populated ==
    LET st1 == R_postProjects(R_empty, 1,
                   [nameLen |-> MinNameLen, locationLen |-> MinNameLen,
                    area |-> 1, id |-> 0, status |-> "",
                    actualCredits |-> 0]).st
        st2 == R_postMrvData(st1, 1,
                   [projectId |-> 1, wellFormed |-> TRUE,
                    carbonSequestration |-> 1, id |-> 0]).st
        st3 == R_postStakeholderRegister(st2, 1,
                   [nameLen |-> MinStakeholderNameLen,
                    wellFormed |-> TRUE]).st
    IN {[st3 EXCEPT !.notifications = n] :
            n \in R_ProvisionedNotifications \ {<<>>}}

InitRestTransitions ==
    /\ target = "rest"
    /\ now = 1
    /\ simple = S_constructor
    /\ full = F_constructor
    /\ InitNode
    /\ rest \in R_Populated

NextRestTransitions ==
    \/ PutProjectStatus
    \/ PutStakeholderApprove
    \/ PutMrvDataVerify
    \/ PutNotificationRead
    \/ Tick

SpecRestTransitions == InitRestTransitions /\ [][NextRestTransitions]_vars

\* Either contract, deployed on its own:
InitContracts == InitSimple \/ InitFull

NextContracts == NextSimple \/ NextFull

SpecContracts == InitContracts /\ [][NextContracts]_vars

\* Any of the three registries, deployed on its own:
InitRegistries == InitContracts \/ InitRest

NextRegistries ==
    \/ NextContracts
    \/ PostProjects
    \/ PutProjectStatus
    \/ GetAnalyticsOverview

SpecRegistries == InitRegistries /\ [][NextRegistries]_vars

\* ------------------------------------------------ concurrent REST requests
NumRequests == 2      \* HTTP requests in flight at once
Request     == 1..NumRequests

\* a request that Express has not yet handed to its handler
R_waiting == [pc |-> "waiting", id |-> 0, action |-> "", projects |-> <<>>,
              status |-> 0]

\* projects.json holding MaxProjects projects, the i-th created at time i
RECURSIVE R_Projects(_)
R_Projects(n) ==
    IF n = 0 THEN R_empty
    ELSE R_postProjects(R_Projects(n - 1), n,
             [nameLen |-> MinNameLen, locationLen |-> MinNameLen,
              area |-> 1, id |-> 0, status |-> "",
              actualCredits |-> 0]).st

\* A handler of api.js is a synchronous callback: it calls readFileSync and
\* writeFileSync and awaits nothing, and Node.js runs a callback to its end
\* before it starts another.  A handler can start when no call sits between
\* its readDataFile and its writeDataFile.
R_dispatchable_any(calls) == TRUE

R_dispatchable(calls) == \A r \in DOMAIN calls : calls[r].pc # "loaded"

\* PUT /projects/:id/status up to its readDataFile (the request has passed
\* validateAdminAction)
HandlerLoad(r) ==
    \E id \in RecordId, action \in AdminActions :
        /\ target = "rest"
        /\ inflight[r].pc = "waiting"
        /\ R_dispatchable(inflight)
        /\ inflight' = [inflight EXCEPT ![r] =
              [pc |-> "loaded", id |-> id, action |-> action,
               projects |-> rest.projects, status |-> 0]]
        /\ UNCHANGED <<target, now, simple, full, rest, limiter, api, lookup>>

\* PUT /projects/:id/status from findIndex to the response: the handler
\* changes the array it loaded and writes that array
HandlerSave(r) ==
    /\ target = "rest"
    /\ inflight[r].pc = "loaded"
    /\ LET call     == inflight[r]
           response == R_putProjectStatus(
                          [rest EXCEPT !.projects = call.projects], now,
                          call.id,
                          [action |-> call.action, targetId |-> 1,
                           adminAddress |-> Deployer])
       IN /\ rest' = IF response.status = 200
                     THEN [rest EXCEPT !.projects = response.st.projects]
                     ELSE rest
          /\ inflight' = [inflight EXCEPT ![r] =
                [call EXCEPT !.pc = "answered",
                             !.status = response.status]]
    /\ UNCHANGED <<target, now, simple, full, limiter, api, lookup>>

HandlerLoads == \E r \in Request : HandlerLoad(r)

HandlerSaves == \E r \in Request : HandlerSave(r)

InitRestConcurrent ==
    /\ target = "rest"
    /\ now = MaxTime
    /\ simple = S_constructor
    /\ full = F_constructor
    /\ rest = R_Projects(MaxProjects)
    /\ inflight = [r \in Request |-> R_waiting]
    /\ limiter = <<>>
    /\ api = <<>>
    /\ lookup = <<>>

NextRestConcurrent == HandlerLoads \/ HandlerSaves

SpecRestConcurrent == InitRestConcurrent /\ [][NextRestConcurrent]_vars

\* ---------------------------------------------------- failing file access
\* readDataFile: the parsed file, or [] when the file is missing or when
\* readFileSync or JSON.parse throws
R_readDataFile(file, readOk) == IF readOk THEN file ELSE <<>>

\* writeDataFile: the file after the call and the value returned; a
\* writeFileSync that throws is caught and reported as false
R_writeDataFile(file, data, writeOk) ==
    [file |-> IF writeOk THEN data ELSE file, returned |-> writeOk]

\* POST /projects with the outcome of its file accesses: the handler builds
\* the record on the array that readDataFile returned, passes the array to
\* writeDataFile, drops the value returned and answers 201
R_postProjectsIO(st, ts, body, readOk, writeOk) ==
    LET projects == R_readDataFile(st.projects, readOk)
        response == R_postProjects([st EXCEPT !.projects = projects], ts,
                                   body)
        written  == R_writeDataFile(st.projects, response.st.projects,
                                    writeOk)
    IN IF response.status # 201 THEN [st |-> st, status |-> response.status]
       ELSE [st |-> [st EXCEPT !.projects = written.file], status |-> 201]

PostProjectsIO ==
    \E body \in ProjectBody, readOk \in BOOLEAN, writeOk \in BOOLEAN :
        /\ target = "rest"
        /\ Len(rest.projects) < MaxProjects
        /\ rest' = R_postProjectsIO(rest, now, body, readOk, writeOk).st
        /\ UNCHANGED <<nodeVars, target, now, simple, full>>

NextRestIO ==
    \/ PostProjectsIO
    \/ PutProjectStatus
    \/ Tick

SpecRestIO == InitRest /\ [][NextRestIO]_vars

\* ------------------------------------------- BlockchainAPI: enum lookups
\* (src/utils/blockchain-api.js)
MaxEnumIndex == 6     \* enum values 0..MaxEnumIndex handed to the lookups
EnumIndex    == 0..MaxEnumIndex

\* enum EcosystemType and enum StakeholderType of the full contract, in the
\* order of their indices 0, 1, ...
F_EcosystemType ==
    <<"Mangrove", "Seagrass", "SaltMarsh", "TidalMarsh", "CoastalWetland">>

F_StakeholderType ==
    <<"NGO", "Community", "Panchayat", "Researcher", "Government", "Private">>

\* String.prototype.toLowerCase, on the strings the lookups meet
toLowerCase(s) ==
    CASE s = "Mangrove" -> "mangrove"
      [] s = "Seagrass" -> "seagrass"
      [] s = "Salt Marsh" -> "salt marsh"
      [] s = "Tidal Marsh" -> "tidal marsh"
      [] s = "NGO" -> "ngo"
      [] s = "Community" -> "community"
      [] s = "Panchayat" -> "panchayat"
      [] s = "Researcher" -> "researcher"
      [] s = "Government" -> "government"
      [] s = "Unknown" -> "unknown"
      [] OTHER -> s

\* names[parseInt(typeEnum)] || 'Unknown', for an array literal names
NameAt(names, typeEnum) ==
    IF typeEnum + 1 \in DOMAIN names THEN names[typeEnum + 1] ELSE "Unknown"

\* types[typeName.toLowerCase()] ?? 0, for an object literal types
IndexOf(types, typeName) ==
    IF toLowerCase(typeName) \in DOMAIN types
    THEN types[toLowerCase(typeName)]
    ELSE 0

getEcosystemTypeEnum(typeName) ==
    IndexOf([mangrove |-> 0, seagrass |-> 1, saltmarsh |-> 2,
             tidalmarsh |-> 3], typeName)

getEcosystemTypeName(typeEnum) ==
    NameAt(<<"Mangrove", "Seagrass", "Salt Marsh", "Tidal Marsh">>, typeEnum)

getStakeholderTypeEnum(typeName) ==
    IndexOf([ngo |-> 0, community |-> 1, panchayat |-> 2, researcher |-> 3,
             government |-> 4], typeName)

getStakeholderTypeName(typeEnum) ==
    NameAt(<<"NGO", "Community", "Panchayat", "Researcher", "Government">>,
           typeEnum)

getProjectStatusName(statusEnum) ==
    NameAt(<<"Pending", "Active", "Verified", "Suspended">>, statusEnum)

\* The enum values that a caller reads from the contract and the results of
\* the lookups it makes with them ("" and -1: not yet looked up)
InitLookup ==
    /\ target = "lookup"
    /\ now = 1
    /\ simple = S_constructor
    /\ full = F_constructor
    /\ rest = R_empty
    /\ inflight = <<>>
    /\ limiter = <<>>
    /\ api = <<>>
    /\ \E e \in EnumIndex, s \in EnumIndex, p \in EnumIndex :
          lookup = [ecosystem |-> e, stakeholder |-> s, status |-> p,
                    ecosystemName |-> "", stakeholderName |-> "",
                    statusName |-> "", ecosystemEnum |-> -1,
                    stakeholderEnum |-> -1]

LookupEcosystemTypeName ==
    /\ target = "lookup"
    /\ lookup.ecosystemName = ""
    /\ lookup' = [lookup EXCEPT
                    !.ecosystemName = getEcosystemTypeName(lookup.ecosystem)]
    /\ UNCHANGED <<target, now, simple, full, rest, inflight, limiter, api>>

LookupEcosystemTypeEnum ==
    /\ target = "lookup"
    /\ lookup.ecosystemName # ""
    /\ lookup.ecosystemEnum = -1
    /\ lookup' = [lookup EXCEPT
                    !.ecosystemEnum =
                        getEcosystemTypeEnum(lookup.ecosystemName)]
    /\ UNCHANGED <<target, now, simple, full, rest, inflight, limiter, api>>

LookupStakeholderTypeName ==
    /\ target = "lookup"
    /\ lookup.stakeholderName = ""
    /\ lookup' = [lookup EXCEPT
                    !.stakeholderName =
                        getStakeholderTypeName(lookup.stakeholder)]
    /\ UNCHANGED <<target, now, simple, full, rest, inflight, limiter, api>>

LookupStakeholderTypeEnum ==
    /\ target = "lookup"
    /\ lookup.stakeholderName # ""
    /\ lookup.stakeholderEnum = -1
    /\ lookup' = [lookup EXCEPT
                    !.stakeholderEnum =
                        getStakeholderTypeEnum(lookup.stakeholderName)]
    /\ UNCHANGED <<target, now, simple, full, rest, inflight, limiter, api>>

LookupProjectStatusName ==
    /\ target = "lookup"
    /\ lookup.statusName = ""
    /\ lookup' = [lookup EXCEPT
                    !.statusName = getProjectStatusName(lookup.status)]
    /\ UNCHANGED <<target, now, simple, full, rest, inflight, limiter, api>>

NextLookup ==
    \/ LookupEcosystemTypeName
    \/ LookupEcosystemTypeEnum
    \/ LookupStakeholderTypeName
    \/ LookupStakeholderTypeEnum
    \/ LookupProjectStatusName

SpecLookup == InitLookup /\ [][NextLookup]_vars

\* -------------------------------------------- validateRateLimit middleware
\* (src/middleware/validation.js)
MaxRequests    == 2   \* maxRequests of the middleware
WindowMs       == 2   \* windowMs of the middleware
NumClients     == 2   \* client identifiers (req.ip) 1..NumClients
MaxLimiterTime == 4   \* Date.now() ranges over 1..MaxLimiterTime
Client         == 1..NumClients

\* One request through the middleware that validateRateLimit(MaxRequests,
\* WindowMs) returns: requestCounts after it, and 429 or 0 for next().
validateRateLimit(requestCounts, identifier, ts) ==
    LET windowStart == ts - WindowMs
        \* Clean old entries
        cleaned == [key \in {k \in DOMAIN requestCounts :
                               ~(requestCounts[k].timestamp < windowStart)}
                       |-> requestCounts[key]]
        \* requestCounts.get(identifier) || { count: 0, timestamp: now }
        found   == IF identifier \in DOMAIN cleaned THEN cleaned[identifier]
                   ELSE [count |-> 0, timestamp |-> ts]
        current == IF found.timestamp < windowStart
                   THEN [count |-> 0, timestamp |-> ts]
                   ELSE found
        counted == [current EXCEPT !.count = @ + 1]
    IN [requestCounts |->
           [key \in DOMAIN cleaned \cup {identifier} |->
               IF key = identifier THEN counted ELSE cleaned[key]],
        status |-> IF counted.count > MaxRequests THEN 429 ELSE 0]

\* the times, of the last WindowMs milliseconds up to ts, in a log of times
Recent(log, ts) == SelectSeq(log, LAMBDA t : t > ts - WindowMs)

\* A request of a client reaches the middleware; limiter.passed logs the
\* times at which the middleware called next() for the client.  A client
\* that was answered 429 waits before it sends again.
RateLimitedRequest ==
    \E identifier \in Client :
        LET result == validateRateLimit(limiter.requestCounts, identifier,
                                        now)
        IN /\ target = "limiter"
           /\ result.requestCounts[identifier].count <= MaxRequests + 1
           /\ limiter' =
                 [requestCounts |-> result.requestCounts,
                  passed |-> IF result.status = 429 THEN limiter.passed
                             ELSE [limiter.passed EXCEPT
                                      ![identifier] = Append(@, now)]]
           /\ UNCHANGED <<target, now, simple, full, rest, inflight, api,
                          lookup>>

\* a millisecond passes; the log drops the times that left the last window
LimiterTick ==
    /\ target = "limiter"
    /\ now < MaxLimiterTime
    /\ now' = now + 1
    /\ limiter' = [limiter EXCEPT
                     !.passed = [c \in Client |->
                                    Recent(limiter.passed[c], now + 1)]]
    /\ UNCHANGED <<target, simple, full, rest, inflight, api, lookup>>

InitLimiter ==
    /\ target = "limiter"
    /\ now = 1
    /\ simple = S_constructor
    /\ full = F_constructor
    /\ rest = R_empty
    /\ inflight = <<>>
    /\ api = <<>>
    /\ lookup = <<>>
    /\ limiter = [requestCounts |-> <<>>, passed |-> [c \in Client |-> <<>>]]

NextLimiter == RateLimitedRequest \/ LimiterTick

SpecLimiter == InitLimiter /\ [][NextLimiter]_vars

\* ------------------------------------------ BlockchainAPI: balance cache
\* (src/utils/blockchain-api.js)
NumHolders   == 2     \* token holders 1..NumHolders
NumGets      == 2     \* calls of getCarbonCreditBalance
CacheTimeout == 1     \* this.cacheTimeout, in the unit of now
Ether        == 10    \* wei per token
Holder       == 1..NumHolders
GetCall      == 1..NumGets
Null         == -1

toWei(amount) == amount * Ether

fromWei(amount) == amount \div Ether

\* this.cache.set(key, { data, timestamp: Date.now() })
setCache(cache, key, data, ts) ==
    [k \in DOMAIN cache \cup {key} |->
        IF k = key THEN [data |-> data, timestamp |-> ts] ELSE cache[k]]

\* this.cache.delete(key)
deleteCache(cache, key) == [k \in DOMAIN cache \ {key} |-> cache[k]]

\* getCache: the data of a fresh entry; otherwise the key is deleted and
\* the result is null
getCache(cache, key, ts) ==
    IF key \in DOMAIN cache /\ ts - cache[key].timestamp < CacheTimeout
    THEN [cache |-> cache, data |-> cache[key].data]
    ELSE [cache |-> deleteCache(cache, key), data |-> Null]

NoGet == [pc |-> "idle", address |-> 0, balance |-> Null, returned |-> Null,
          afterMint |-> FALSE]

\* getCarbonCreditBalance(address) as far as its await: a cached balance is
\* returned, otherwise balanceOf(address).call() is sent
GetStart(g) ==
    \E address \in Holder :
        LET cached == getCache(api.cache, address, now)
        IN /\ target = "api"
           /\ api.gets[g].pc = "idle"
           /\ api' = [api EXCEPT
                 !.cache = cached.cache,
                 !.gets[g] =
                    [pc |-> IF cached.data # Null THEN "returned"
                            ELSE "calling",
                     address |-> address, balance |-> Null,
                     returned |-> cached.data,
                     afterMint |-> api.mint.pc = "resolved"]]
           /\ UNCHANGED <<target, now, simple, full, rest, inflight,
                          limiter, lookup>>

\* the node evaluates balanceOf(address) on the token contract; its answer
\* is on its way to the caller
GetAnswered(g) ==
    /\ target = "api"
    /\ api.gets[g].pc = "calling"
    /\ api' = [api EXCEPT
          !.gets[g].pc = "answered",
          !.gets[g].balance = api.balance[api.gets[g].address]]
    /\ UNCHANGED <<target, now, simple, full, rest, inflight, limiter,
                   lookup>>

\* getCarbonCreditBalance after its await: fromWei, setCache, return
GetResume(g) ==
    /\ target = "api"
    /\ api.gets[g].pc = "answered"
    /\ LET balanceInTokens == fromWei(api.gets[g].balance)
       IN api' = [api EXCEPT
             !.cache = setCache(@, api.gets[g].address, balanceInTokens,
                                now),
             !.gets[g].pc = "returned",
             !.gets[g].returned = balanceInTokens]
    /\ UNCHANGED <<target, now, simple, full, rest, inflight, limiter,
                   lookup>>

\* mintCarbonCredits(to, 1, ...) as far as its await: the transaction is
\* sent
MintStart ==
    \E to \in Holder :
        /\ target = "api"
        /\ api.mint.pc = "idle"
        /\ api' = [api EXCEPT !.mint = [pc |-> "sent", to |-> to,
                                         amountInWei |-> toWei(1)]]
        /\ UNCHANGED <<target, now, simple, full, rest, inflight, limiter,
                       lookup>>

\* the transaction is mined: the token contract credits the holder
MintMined ==
    /\ target = "api"
    /\ api.mint.pc = "sent"
    /\ api' = [api EXCEPT !.mint.pc = "mined",
                          !.balance[api.mint.to] = @ + api.mint.amountInWei]
    /\ UNCHANGED <<target, now, simple, full, rest, inflight, limiter,
                   lookup>>

\* mintCarbonCredits after its await: the holder's cache entry is deleted
\* and the promise resolves
MintResume ==
    /\ target = "api"
    /\ api.mint.pc = "mined"
    /\ api' = [api EXCEPT !.mint.pc = "resolved",
                          !.cache = deleteCache(@, api.mint.to)]
    /\ UNCHANGED <<target, now, simple, full, rest, inflight, limiter,
                   lookup>>

GetStarts == \E g \in GetCall : GetStart(g)

GetAnswers == \E g \in GetCall : GetAnswered(g)

GetResumes == \E g \in GetCall : GetResume(g)

ApiTick ==
    /\ target = "api"
    /\ now < MaxTime
    /\ now' = now + 1
    /\ UNCHANGED <<target, simple, full, rest, nodeVars>>

InitApi ==
    /\ target = "api"
    /\ now = 1
    /\ simple = S_constructor
    /\ full = F_constructor
    /\ rest = R_empty
    /\ inflight = <<>>
    /\ limiter = <<>>
    /\ lookup = <<>>
    /\ api = [cache |-> <<>>, balance |-> [a \in Holder |-> 0],
              gets |-> [g \in GetCall |-> NoGet],
              mint |-> [pc |-> "idle", to |-> 0, amountInWei |-> 0]]

NextApi ==
    \/ GetStarts
    \/ GetAnswers
    \/ GetResumes
    \/ MintStart
    \/ MintMined
    \/ MintResume
    \/ ApiTick

SpecApi == InitApi /\ [][NextApi]_vars

\* ---- carbon credits in the REST API (carbon_credits.json) ----
\* Amounts are whole numbers of credits. A field that the body does not
\* carry is 0 (id, owner, ownerAddress, amount) or FALSE (reason).
MaxCredits == 3

MintBody ==
    [amount : 0..MaxCarbon, id : {0} \cup RecordId, owner : {0} \cup Holder]

RetireBody ==
    [amount : 0..(MaxCarbon + 1), reason : BOOLEAN,
     ownerAddress : {0} \cup Holder]

\* the amount rule of validateCarbonCreditMinting: present and at least the
\* minimum; the body's owner field is not among the validated fields
R_validateCarbonCreditMinting(body) == body.amount > 0

R_postCarbonCreditsMint(st, ts, body) ==
    IF ~R_validateCarbonCreditMinting(body) THEN [st |-> st, status |-> 400]
    ELSE LET \* { id: Date.now().toString(), ...req.body, mintedAt: ...,
             \*   retired: false, status: 'active' }
             newCredit ==
                [id |-> IF body.id # 0 THEN body.id ELSE ts,
                 amount |-> body.amount, owner |-> body.owner,
                 mintedAt |-> ts, retired |-> FALSE, retiredAt |-> 0]
         IN [st |-> [st EXCEPT !.carbon_credits = Append(@, newCredit)],
             status |-> 201]

\* credits.filter(c => c.owner === address && !c.retired), as positions
R_userCredits(credits, address) ==
    {i \in 1..Len(credits) :
        credits[i].owner = address /\ ~credits[i].retired}

\* GET /carbon-credits/balance/:address
R_getCarbonCreditsBalance(st, address) ==
    LET credits == st.carbon_credits
    IN SumSeq([i \in 1..Len(credits) |->
                  IF i \in R_userCredits(credits, address)
                  THEN credits[i].amount ELSE 0])

\* the loop of the retire handler from position i on: a credit of the owner
\* is retired whole when its amount is at most what remains to retire, and is
\* passed over otherwise
RECURSIVE R_retireLoop(_, _, _, _, _)
R_retireLoop(credits, i, remainingAmount, ownerAddress, ts) ==
    IF i > Len(credits) \/ remainingAmount <= 0
    THEN [credits |-> credits, remainingAmount |-> remainingAmount]
    ELSE IF /\ i \in R_userCredits(credits, ownerAddress)
            /\ credits[i].amount <= remainingAmount
         THEN R_retireLoop(
                 [credits EXCEPT ![i].retired = TRUE, ![i].retiredAt = ts],
                 i + 1, remainingAmount - credits[i].amount, ownerAddress, ts)
         ELSE R_retireLoop(credits, i + 1, remainingAmount, ownerAddress, ts)

R_postCarbonCreditsRetire(st, ts, body) ==
    IF body.amount = 0 \/ ~body.reason \/ body.ownerAddress = 0
    THEN [st |-> st, status |-> 400, error |-> "Missing required fields"]
    ELSE LET loop == R_retireLoop(st.carbon_credits, 1, body.amount,
                                  body.ownerAddress, ts)
         IN IF loop.remainingAmount > 0
            THEN [st |-> st, status |-> 400,
                  error |-> "Insufficient credits to retire"]
            ELSE [st |-> [st EXCEPT !.carbon_credits = loop.credits],
                  status |-> 200, error |-> ""]

PostCarbonCreditsMint ==
    \E body \in MintBody :
        /\ target = "rest"
        /\ Len(rest.carbon_credits) < MaxCredits
        /\ rest' = R_postCarbonCreditsMint(rest, now, body).st
        /\ UNCHANGED <<nodeVars, target, now, simple, full>>

PostCarbonCreditsRetire ==
    \E body \in RetireBody :
        /\ target = "rest"
        /\ rest' = R_postCarbonCreditsRetire(rest, now, body).st
        /\ UNCHANGED <<nodeVars, target, now, simple, full>>

NextRestCredits ==
    \/ PostCarbonCreditsMint
    \/ PostCarbonCreditsRetire
    \/ Tick

SpecRestCredits == InitRest /\ [][NextRestCredits]_vars

\* ---- BlockchainAPI over the registry contract (blockchain-api.js) ----
\* One BlockchainAPI object used sequentially: a method call is one step,
\* from its call to the resolution of its promise. The contract behind
\* this.web3Config.contracts.blueCarbonRegistry is `simple`, and the
\* transactions are sent from web3Config.currentAccount. `api` is
\* [cache |-> the object's cache Map].
currentAccount == Deployer

StatisticsKey == <<"registry_statistics", 0>>
ProjectKey(projectId) == <<"project", projectId>>
ProjectMrvKey(projectId) == <<"project_mrv", projectId>>

\* the entry of `key` is one that getCache returns
A_cached(cache, key, ts) ==
    key \in DOMAIN cache /\ ts - cache[key].timestamp < CacheTimeout

\* getProject of the contract reverts for a project that does not exist
S_getProject_ok(st, projectId) == st.projects[projectId].id # 0

\* contract.methods.getProject(projectId).call(), formatted
A_formattedProject(chain, projectId) ==
    LET project == chain.projects[projectId]
        statusEnum == CHOOSE i \in 0..3 : S_ProjectStatus[i + 1] = project.status
    IN [id |-> project.id, owner |-> project.owner,
        status |-> getProjectStatusName(statusEnum),
        verifiedAt |-> IF project.verifiedAt > 0 THEN project.verifiedAt
                       ELSE Null,
        actualCredits |-> project.actualCredits]

\* contract.methods.getProjectMRVData(projectId).call(), formatted
A_formattedMRVData(chain, projectId) ==
    LET mrvDataArray == S_getProjectMRVData(chain, projectId)
    IN [i \in 1..Len(mrvDataArray) |->
          [mrvDataArray[i] EXCEPT
              !.verifiedAt = IF @ > 0 THEN @ ELSE Null]]

\* contract.methods.getRegistryStatistics().call(), formatted
A_formattedStats(chain) ==
    [totalProjects |-> chain.totalProjects,
     totalVerifiedProjects |-> chain.totalVerifiedProjects,
     totalCarbonSequestered |-> chain.totalCarbonSequestered,
     totalStakeholders |-> 0]

\* a read method: the cached value of its key if getCache returns one,
\* otherwise the value fetched from the contract, which is cached
A_read(a, key, fetched, ts) ==
    IF A_cached(a.cache, key, ts)
    THEN [api |-> a, data |-> a.cache[key].data]
    ELSE [api |-> [a EXCEPT !.cache = setCache(getCache(@, key, ts).cache,
                                               key, fetched, ts)],
          data |-> fetched]

A_getProject(a, chain, ts, projectId) ==
    A_read(a, ProjectKey(projectId), A_formattedProject(chain, projectId), ts)

A_getProjectMRVData(a, chain, ts, projectId) ==
    A_read(a, ProjectMrvKey(projectId),
           A_formattedMRVData(chain, projectId), ts)

A_getRegistryStatistics(a, chain, ts) ==
    A_read(a, StatisticsKey, A_formattedStats(chain), ts)

\* the write methods after their transaction is mined: the caches that
\* each one clears
A_registerProject(a) ==
    [a EXCEPT !.cache = deleteCache(deleteCache(@, StatisticsKey),
                            <<"stakeholder_projects", currentAccount>>)]

A_submitMRVData(a, projectId) ==
    [a EXCEPT !.cache = deleteCache(deleteCache(@, ProjectMrvKey(projectId)),
                                    StatisticsKey)]

A_verifyMRVData(a, dataId) ==
    [a EXCEPT !.cache = deleteCache(@, StatisticsKey)]

A_verifyProject(a, projectId) ==
    [a EXCEPT !.cache = deleteCache(deleteCache(@, ProjectKey(projectId)),
                                    StatisticsKey)]

\* the contract when the object is constructed: the account is an approved
\* stakeholder and owns project 1, which the admin has made Active
A_deployedRegistry ==
    LET s1 == S_registerStakeholder(S_constructor, currentAccount, 1, 1)
        s2 == S_approveStakeholder(s1, Deployer, currentAccount)
        s3 == S_registerProject(s2, currentAccount, 1, 1, 1, 1)
    IN S_changeProjectStatus(s3, Deployer, 1, 1, "Active")

InitApiRegistry ==
    /\ target = "registry-api"
    /\ now = 1
    /\ simple = A_deployedRegistry
    /\ full = F_constructor
    /\ rest = R_empty
    /\ inflight = <<>>
    /\ limiter = <<>>
    /\ lookup = <<>>
    /\ api = [cache |-> <<>>]

ApiRegisterProject ==
    /\ target = "registry-api"
    /\ simple.nextProjectId <= MaxProjects
    /\ S_registerProject_ok(simple, currentAccount, 1, 1, 1)
    /\ simple' = S_registerProject(simple, currentAccount, now, 1, 1, 1)
    /\ api' = A_registerProject(api)
    /\ UNCHANGED <<target, now, full, rest, inflight, limiter, lookup>>

ApiSubmitMRVData ==
    \E projectId \in ProjectId, carbonSequestration \in 1..MaxCarbon :
        /\ target = "registry-api"
        /\ simple.nextMRVDataId <= MaxMRV
        /\ S_submitMRVData_ok(simple, currentAccount, projectId, 1,
                              carbonSequestration)
        /\ simple' = S_submitMRVData(simple, currentAccount, now, projectId,
                                     1, carbonSequestration)
        /\ api' = A_submitMRVData(api, projectId)
        /\ UNCHANGED <<target, now, full, rest, inflight, limiter, lookup>>

ApiVerifyMRVData ==
    \E dataId \in DataId :
        /\ target = "registry-api"
        /\ S_verifyMRVData_ok(simple, currentAccount, dataId)
        /\ simple' = S_verifyMRVData(simple, currentAccount, now, dataId)
        /\ api' = A_verifyMRVData(api, dataId)
        /\ UNCHANGED <<target, now, full, rest, inflight, limiter, lookup>>

ApiVerifyProject ==
    \E projectId \in ProjectId :
        /\ target = "registry-api"
        /\ S_verifyProject_ok(simple, currentAccount, projectId)
        /\ simple' = S_verifyProject(simple, currentAccount, now, projectId)
        /\ api' = A_verifyProject(api, projectId)
        /\ UNCHANGED <<target, now, full, rest, inflight, limiter, lookup>>

ApiGetProject ==
    \E projectId \in ProjectId :
        /\ target = "registry-api"
        /\ A_cached(api.cache, ProjectKey(projectId), now)
              \/ S_getProject_ok(simple, projectId)
        /\ api' = A_getProject(api, simple, now, projectId).api
        /\ UNCHANGED <<target, now, simple, full, rest, inflight, limiter,
                       lookup>>

ApiGetProjectMRVData ==
    \E projectId \in ProjectId :
        /\ target = "registry-api"
        /\ api' = A_getProjectMRVData(api, simple, now, projectId).api
        /\ UNCHANGED <<target, now, simple, full, rest, inflight, limiter,
                       lookup>>

ApiGetRegistryStatistics ==
    /\ target = "registry-api"
    /\ api' = A_getRegistryStatistics(api, simple, now).api
    /\ UNCHANGED <<target, now, simple, full, rest, inflight, limiter,
                   lookup>>

ApiRegistryTick ==
    /\ target = "registry-api"
    /\ now < MaxTime
    /\ now' = now + 1
    /\ UNCHANGED <<target, simple, full, rest, nodeVars>>

NextApiRegistry ==
    \/ ApiRegisterProject
    \/ ApiSubmitMRVData
    \/ ApiVerifyMRVData
    \/ ApiVerifyProject
    \/ ApiGetProject
    \/ ApiGetProjectMRVData
    \/ ApiGetRegistryStatistics
    \/ ApiRegistryTick

SpecApiRegistry == InitApiRegistry /\ [][NextApiRegistry]_vars

\* ---- Web3Config.getTransactionReceipt (web3-config.js) ----
\* One call getTransactionReceipt(txHash, maxRetries). `api` is the call:
\*   pc         "test" (at the loop's test i < maxRetries), "polling" (awaits
\*              web3.eth.getTransactionReceipt), "sleeping" (awaits the
\*              2 second timer), "returned", "thrown"
\*   i          the loop counter
\*   yields     what each poll so far yielded: "receipt", "null", "failed"
\*   mined      the node holds a receipt for txHash
MaxRetries == 3

PollYield == {"receipt", "null", "failed"}

W_call(maxRetries, mined) ==
    [pc |-> "test", i |-> 0, maxRetries |-> maxRetries, yields |-> <<>>,
     mined |-> mined]

\* for (let i = 0; i < maxRetries; ...): the body is entered, or the loop is
\* left and the error is thrown
W_test(a) ==
    IF a.i < a.maxRetries THEN [a EXCEPT !.pc = "polling"]
    ELSE [a EXCEPT !.pc = "thrown"]

\* the error of a failed poll leaves the function
W_afterFailedPoll_uncaught(a) == [a EXCEPT !.pc = "thrown"]

\* a failed poll (the promise rejects) is caught; only the warning is logged
W_afterFailedPoll(a) == [a EXCEPT !.pc = "sleeping"]

\* the awaited poll settles: a receipt is returned at once; after null or a
\* rejection the function goes on to wait
W_afterPoll(a, yield) ==
    LET polled == [a EXCEPT !.yields = Append(@, yield)]
    IN IF yield = "receipt" THEN [polled EXCEPT !.pc = "returned"]
       ELSE IF yield = "failed" THEN W_afterFailedPoll(polled)
       ELSE [polled EXCEPT !.pc = "sleeping"]

\* the timer fires: i++ and back to the loop's test
W_afterSleep(a) == [a EXCEPT !.pc = "test", !.i = @ + 1]

InitReceipt ==
    /\ target = "receipt"
    /\ now = 1
    /\ simple = S_constructor
    /\ full = F_constructor
    /\ rest = R_empty
    /\ inflight = <<>>
    /\ limiter = <<>>
    /\ lookup = <<>>
    /\ \E maxRetries \in 0..MaxRetries, mined \in BOOLEAN :
          api = W_call(maxRetries, mined)

ReceiptTest ==
    /\ target = "receipt"
    /\ api.pc = "test"
    /\ api' = W_test(api)
    /\ UNCHANGED <<target, now, simple, full, rest, inflight, limiter, lookup>>

\* the node answers the poll: the receipt if it holds one, null if not, or
\* the request fails
ReceiptPollSettles ==
    \E yield \in PollYield :
        /\ target = "receipt"
        /\ api.pc = "polling"
        /\ yield = "receipt" => api.mined
        /\ yield = "null" => ~api.mined
        /\ api' = W_afterPoll(api, yield)
        /\ UNCHANGED <<target, now, simple, full, rest, inflight, limiter,
                       lookup>>

ReceiptTimerFires ==
    /\ target = "receipt"
    /\ api.pc = "sleeping"
    /\ api' = W_afterSleep(api)
    /\ UNCHANGED <<target, now, simple, full, rest, inflight, limiter, lookup>>

\* the transaction is mined while the call is under way
ReceiptMined ==
    /\ target = "receipt"
    /\ ~api.mined
    /\ api.pc \notin {"returned", "thrown"}
    /\ api' = [api EXCEPT !.mined = TRUE]
    /\ UNCHANGED <<target, now, simple, full, rest, inflight, limiter, lookup>>

NextReceipt ==
    \/ ReceiptTest
    \/ ReceiptPollSettles
    \/ ReceiptTimerFires
    \/ ReceiptMined

SpecReceipt == InitReceipt /\ [][NextReceipt]_vars

\* the event loop runs every continuation that is ready, every timer fires,
\* and the provider settles every request it was sent
SpecReceiptFair ==
    /\ SpecReceipt
    /\ WF_vars(ReceiptTest)
    /\ WF_vars(ReceiptPollSettles)
    /\ WF_vars(ReceiptTimerFires)

(***************************************************************************)
(* Claims                                                                  *)
(***************************************************************************)
S_VerifiedProjects ==
    {p \in ProjectId : /\ simple.projects[p].id # 0
                       /\ simple.projects[p].status = "Verified"}
F_VerifiedProjects ==
    {p \in DOMAIN full.projects : full.projects[p].status = "Verified"}
R_VerifiedProjects ==
    {i \in DOMAIN rest.projects : rest.projects[i].status = "verified"}

\* C1: simple contract: totalVerifiedProjects equals the number of projects
\* whose status is Verified, in every reachable state.
C1_SimpleVerifiedCount ==
    simple.totalVerifiedProjects = Cardinality(S_VerifiedProjects)

\* C2: full contract: totalVerifiedProjects equals the number of projects
\* whose status is Verified, in every reachable state.
C2_FullVerifiedCount ==
    full.totalVerifiedProjects = Cardinality(F_VerifiedProjects)

\* a Verified project that was deactivated, next to a project that was
\* Verified once and has left that status
C2_Witness ==
    /\ \E p \in F_VerifiedProjects : ~full.projects[p].isActive
    /\ \E q \in DOMAIN full.projects :
          /\ full.projects[q].status # "Verified"
          /\ full.projects[q].verifiedAt # 0

\* C3: REST API: the verifiedProjects of GET /analytics/overview equals the
\* number of records of projects.json whose status is 'verified' when the
\* request is served.
C3_AnalyticsVerifiedCount ==
    R_getAnalyticsOverview(rest).analytics.verifiedProjects
        = Cardinality(R_VerifiedProjects)

\* one verified project, and one that was verified and then moved on
C3_Witness ==
    /\ Cardinality(R_VerifiedProjects) = 1
    /\ \E i \in DOMAIN rest.projects :
          /\ rest.projects[i].status \in {"suspended", "rejected", "active"}
          /\ rest.projects[i].verifiedAt # 0

\* the step is a successful verifyMRVData(dataId) of the simple contract
S_isVerifyMRVData(dataId) ==
    \E sender \in Address :
        /\ S_verifyMRVData_ok(simple, sender, dataId)
        /\ simple' = S_verifyMRVData(simple, sender, now, dataId)

\* the step is a successful verifyMRVData(dataId, verificationStatus) of the
\* full contract
F_isVerifyMRVData(dataId, verificationStatus) ==
    \E sender \in Address :
        /\ F_verifyMRVData_ok(full, sender, dataId, verificationStatus)
        /\ full' = F_verifyMRVData(full, sender, now, dataId,
                                   verificationStatus)

C4_SimpleStep ==
    \A p \in ProjectId :
        LET old == simple.projects[p].actualCredits
            new == simple'.projects[p].actualCredits
        IN /\ new >= old
           /\ new # old =>
                \E d \in DataId :
                    /\ S_isVerifyMRVData(d)
                    /\ simple.mrvDataById[d].projectId = p
                    /\ ~simple.mrvDataById[d].verified
                    /\ simple'.mrvDataById[d].verified
                    /\ new = old + simple.mrvDataById[d].carbonSequestration

C4_FullStep ==
    \A p \in ProjectId :
        LET old == F_project(full, p).actualCarbonCredits
            new == F_project(full', p).actualCarbonCredits
        IN /\ new >= old
           /\ new # old =>
                \E d \in DOMAIN full.mrvData :
                    /\ F_isVerifyMRVData(d, "Verified")
                    /\ full.mrvData[d].projectId = p
                    /\ full.mrvData[d].status # "Verified"
                    /\ full'.mrvData[d].status = "Verified"
                    /\ new = old + full.mrvData[d].carbonSequestration

\* C4: both contracts: a project's actual credits never decrease, and they
\* change only in a verifyMRVData call in which a record of that project
\* becomes verified, by exactly that record's carbonSequestration.
C4_CreditsOnlyByVerification == [][C4_SimpleStep /\ C4_FullStep]_vars

\* a project of the full contract whose credits are the sum of its two
\* verified records, of different amounts
C4_Witness ==
    \E p \in DOMAIN full.projects :
        /\ Len(full.projectMRVData[p]) = 2
        /\ \A i \in 1..2 :
              full.mrvData[full.projectMRVData[p][i]].status = "Verified"
        /\ full.mrvData[full.projectMRVData[p][1]].carbonSequestration = 1
        /\ full.mrvData[full.projectMRVData[p][2]].carbonSequestration = 2
        /\ full.projects[p].actualCarbonCredits = 3

\* the step is a successful PUT /mrv-data/:id/verify on a stored record
\* that was not verified before
R_isFirstVerify(id) ==
    \E body \in AdminBody :
        LET response == R_putMrvDataVerify(rest, now, id, body)
            dataIndex == R_findIndex(rest.mrv_data, id)
        IN /\ response.status = 200
           /\ rest' = response.st
           /\ ~rest.mrv_data[dataIndex].verified

\* C5: REST API: after PUT /mrv-data/:id/verify verifies a record with
\* carbonSequestration c that references an existing project, the stored
\* actualCredits of that project has increased by exactly c.
C5_VerifyCreditsProject ==
    [][\A id \in RecordId :
          R_isFirstVerify(id) =>
             LET record == rest.mrv_data[R_findIndex(rest.mrv_data, id)]
                 projectIndex == R_findIndex(rest.projects, record.projectId)
             IN projectIndex # 0 =>
                   rest'.projects[projectIndex].actualCredits
                     = rest.projects[projectIndex].actualCredits
                         + record.carbonSequestration]_vars

\* C6: full contract: verifyMRVData(dataId, Verified) on a Submitted record
\* with carbonSequestration c of an Active project whose actualCarbonCredits
\* is 0 leaves actualCarbonCredits = c and raises the reputationScore of the
\* project owner by 10, capped at 1000.
C6_FirstVerification ==
    [][\A d \in DOMAIN full.mrvData :
          LET data      == full.mrvData[d]
              projectId == data.projectId
              project   == full.projects[projectId]
              ownerId   == full.stakeholderByAddress[project.owner]
              score     == full.stakeholders[ownerId].reputationScore
          IN ( /\ F_isVerifyMRVData(d, "Verified")
               /\ data.status = "Submitted"
               /\ project.status = "Active"
               /\ project.actualCarbonCredits = 0 )
             => /\ full'.projects[projectId].actualCarbonCredits
                    = data.carbonSequestration
                /\ ownerId # 0
                /\ full'.stakeholders[ownerId].reputationScore
                    = IF score + 10 <= 1000 THEN score + 10 ELSE 1000]_vars

\* a project credited by its first verified record while its owner, already
\* at 1000 after the verification before, stayed at 1000
C6_Witness ==
    \E p \in DOMAIN full.projects :
        /\ full.projects[p].status = "Active"
        /\ full.projects[p].actualCarbonCredits = MaxCarbon
        /\ full.projectStats[p].verifiedMRVSubmissions = 1
        /\ Len(full.mrvData) = SeedRecords + 2
        /\ \A d \in DOMAIN full.mrvData : full.mrvData[d].status = "Verified"
        /\ F_stakeholder(full, full.stakeholderByAddress[
                full.projects[p].owner]).reputationScore = 1000

C7_RejectStep ==
    \A d \in DOMAIN full.mrvData :
        LET projectId == full.mrvData[d].projectId IN
        /\ F_isVerifyMRVData(d, "Rejected") =>
              /\ full'.projects[projectId].actualCarbonCredits
                    = full.projects[projectId].actualCarbonCredits
              /\ full'.projects[projectId].totalAreaRestored
                    = full.projects[projectId].totalAreaRestored
              /\ full'.projectStats[projectId].verifiedMRVSubmissions
                    = full.projectStats[projectId].verifiedMRVSubmissions
              /\ full'.totalCarbonSequestered = full.totalCarbonSequestered
        /\ F_isVerifyMRVData(d, "Verified") =>
              full'.totalCarbonSequestered
                 = full.totalCarbonSequestered
                     + full.mrvData[d].carbonSequestration

\* the records of project p are one Verified and one Rejected record
C7_OneVerifiedOneRejected(p, v, r) ==
    /\ Len(full.projectMRVData[p]) = 2
    /\ {v, r} = {full.projectMRVData[p][1], full.projectMRVData[p][2]}
    /\ full.mrvData[v].status = "Verified"
    /\ full.mrvData[r].status = "Rejected"

C7_Scenario ==
    \A p \in DOMAIN full.projects, v, r \in DOMAIN full.mrvData :
        C7_OneVerifiedOneRejected(p, v, r) =>
            /\ full.projects[p].actualCarbonCredits
                  = full.mrvData[v].carbonSequestration
            /\ (\A d \in DOMAIN full.mrvData : full.mrvData[d].projectId = p)
                  => full.totalCarbonSequestered
                        = full.mrvData[v].carbonSequestration

\* C7: full contract: verifyMRVData(dataId, Rejected) leaves the project's
\* actualCarbonCredits, totalAreaRestored and verifiedMRVSubmissions and the
\* global totalCarbonSequestered unchanged, and a verification adds exactly
\* the record's carbonSequestration to totalCarbonSequestered; so a project
\* with one verified and one rejected record has the verified record's
\* carbonSequestration as its actualCarbonCredits.
C7_RejectionChangesNoTotals == [][C7_RejectStep]_vars /\ []C7_Scenario

\* one record verified and one rejected on the same project, both with a
\* positive amount
C7_Witness ==
    \E p \in DOMAIN full.projects, v, r \in DOMAIN full.mrvData :
        /\ C7_OneVerifiedOneRejected(p, v, r)
        /\ full.mrvData[v].carbonSequestration = MaxCarbon
        /\ full.mrvData[r].carbonSequestration > 0
        /\ full.projects[p].actualCarbonCredits = MaxCarbon
        /\ full.totalCarbonSequestered = MaxCarbon

C8_Range ==
    \A s \in DOMAIN full.stakeholders :
        /\ full.stakeholders[s].reputationScore >= 0
        /\ full.stakeholders[s].reputationScore <= 1000

\* the decision taken in this step on a record of a project owned by the
\* stakeholder s, if there is one
C8_Decided(s, verificationStatus) ==
    \E d \in DOMAIN full.mrvData :
        /\ F_isVerifyMRVData(d, verificationStatus)
        /\ full.projects[full.mrvData[d].projectId].owner
              = full.stakeholders[s].stakeholderAddress

C8_Step ==
    /\ \A s \in DOMAIN full'.stakeholders :
          s \notin DOMAIN full.stakeholders
             => full'.stakeholders[s].reputationScore = 500
    /\ \A s \in DOMAIN full.stakeholders :
          LET old == full.stakeholders[s].reputationScore
              new == full'.stakeholders[s].reputationScore
          IN /\ C8_Decided(s, "Verified")
                   => new = IF old + 10 > 1000 THEN 1000 ELSE old + 10
             /\ C8_Decided(s, "Rejected")
                   => new = IF old < 20 THEN 0 ELSE old - 20
             /\ new # old
                   => C8_Decided(s, "Verified") \/ C8_Decided(s, "Rejected")

\* C8: full contract: every stakeholder's reputationScore is within 0..1000
\* in every reachable state; it starts at 500, every record verified for a
\* project of that owner adds 10, saturating at 1000, and every record
\* rejected subtracts 20, saturating at 0.
C8_ReputationBounded == []C8_Range /\ [][C8_Step]_vars

\* an owner whose score of 10 was floored at 0 by a rejection
C8_Witness ==
    /\ Len(full.mrvData) = SeedRecords + 1
    /\ full.mrvData[SeedRecords + 1].status = "Rejected"
    /\ \E s \in DOMAIN full.stakeholders :
          /\ full.stakeholders[s].reputationScore = 0
          /\ full.stakeholders[s].stakeholderAddress
                = full.projects[full.mrvData[SeedRecords + 1].projectId].owner

\* every verifyMRVData call on a decided record reverts
C9_DecidedIsFinal ==
    \A d \in DOMAIN full.mrvData :
        full.mrvData[d].status \in {"Verified", "Rejected"} =>
            \A sender \in Address, verificationStatus \in MRVStatuses :
                /\ ~F_verifyMRVData_ok(full, sender, d, verificationStatus)
                /\ F_verifyMRVData(full, sender, now, d, verificationStatus)
                      = full

C9_Step ==
    \A d \in DOMAIN full.mrvData :
        /\ full.mrvData[d].status \in {"Verified", "Rejected"}
              => full'.mrvData[d] = full.mrvData[d]
        /\ (full'.mrvData[d].status = "Verified"
                /\ full.mrvData[d].status # "Verified")
              => full.mrvData[d].status \in {"Submitted", "UnderReview"}

\* C9: full contract: verifyMRVData on a record whose status is Verified or
\* Rejected fails and changes nothing, so a decided record never changes
\* and a record becomes Verified only from Submitted or UnderReview.
C9_NoSecondDecision == []C9_DecidedIsFinal /\ [][C9_Step]_vars

\* a verified record next to a rejected one, while a verifier is there to
\* call again
C9_Witness ==
    /\ full.VERIFIER_ROLE # {}
    /\ ~full.paused
    /\ \E v, r \in DOMAIN full.mrvData :
          /\ full.mrvData[v].status = "Verified"
          /\ full.mrvData[r].status = "Rejected"

\* C10: REST API: PUT /mrv-data/:id/verify on a record that is verified
\* already answers with an error and leaves the stored record (status,
\* verified, verifiedAt, verifiedBy) unchanged.
C10_VerifyOnce ==
    \A id \in RecordId, body \in AdminBody :
        LET dataIndex == R_findIndex(rest.mrv_data, id)
            response  == R_putMrvDataVerify(rest, now, id, body)
        IN (dataIndex # 0 /\ rest.mrv_data[dataIndex].verified
               /\ R_validateAdminAction(body))
           => /\ response.status # 200
              /\ response.st.mrv_data[dataIndex] = rest.mrv_data[dataIndex]

\* submitMRVData against a project that does not exist or is neither Active
\* nor Verified reverts, in either contract
C11_Refused ==
    \A sender \in Address, p \in ProjectId, dataHashLen \in StrLen,
       c \in Amount :
        /\ ( \/ simple.projects[p].id = 0
             \/ simple.projects[p].status \notin {"Active", "Verified"} )
              => /\ ~S_submitMRVData_ok(simple, sender, p, dataHashLen, c)
                 /\ S_submitMRVData(simple, sender, now, p, dataHashLen, c)
                       = simple
        /\ ( \/ F_project(full, p).id = 0
             \/ F_project(full, p).status \notin {"Active", "Verified"} )
              => /\ ~F_submitMRVData_ok(full, sender, p, dataHashLen, c)
                 /\ \A areaMonitored \in 1..MaxArea :
                       F_submitMRVData(full, sender, now, p, dataHashLen, c,
                                       areaMonitored) = full

\* a record created in this step names a project that existed and was
\* Active or Verified before the step
C11_Step ==
    /\ simple'.nextMRVDataId # simple.nextMRVDataId =>
          LET p == simple'.mrvDataById[simple.nextMRVDataId].projectId IN
          /\ simple.projects[p].id # 0
          /\ simple.projects[p].status \in {"Active", "Verified"}
    /\ Len(full'.mrvData) # Len(full.mrvData) =>
          LET p == full'.mrvData[Len(full'.mrvData)].projectId IN
          /\ F_project(full, p).id # 0
          /\ F_project(full, p).status \in {"Active", "Verified"}

\* C11: both contracts: submitMRVData creates a record only if the named
\* project exists and its status is Active or Verified at that moment;
\* otherwise the call fails and the storage is unchanged.
C11_SubmitNeedsLiveProject == []C11_Refused /\ [][C11_Step]_vars

\* a suspended project that received its record while it was live, with a
\* data collector there to submit again
C11_Witness ==
    /\ full.DATA_COLLECTOR_ROLE # {}
    /\ ~full.paused
    /\ \E p \in DOMAIN full.projects :
          /\ full.projects[p].status = "Suspended"
          /\ full.projects[p].isActive
          /\ Len(full.projectMRVData[p]) > 0

\* C12: REST API: POST /mrv-data persists a record only if its projectId
\* names a stored project whose status is 'active' or 'verified'.
C12_PostNeedsLiveProject ==
    [][Len(rest'.mrv_data) > Len(rest.mrv_data) =>
          LET newMRVEntry  == rest'.mrv_data[Len(rest'.mrv_data)]
              projectIndex == R_findIndex(rest.projects,
                                          newMRVEntry.projectId)
          IN /\ projectIndex # 0
             /\ rest.projects[projectIndex].status
                   \in {"active", "verified"}]_vars

\* C13: rejected is a terminal project status: a project whose status is
\* rejected keeps that status in every later step, in the REST API and in
\* the full contract.
C13_RejectedIsTerminal ==
    [][/\ \A i \in DOMAIN rest.projects :
             rest.projects[i].status = "rejected"
                => rest'.projects[i].status = "rejected"
       /\ \A p \in DOMAIN full.projects :
             full.projects[p].status = "Rejected"
                => full'.projects[p].status = "Rejected"]_vars

\* the transitions the claim allows for 'approve' and 'verify'
C14_Allowed(action, status) ==
    \/ action = "approve" /\ status = "pending"
    \/ action = "verify" /\ status \in {"pending", "active"}

\* C14: REST API: on PUT /projects/:id/status, 'approve' is accepted only
\* from 'pending' and 'verify' only from 'pending' or 'active'; from any
\* other status the request is answered 400 and the stored project is
\* unchanged.
C14_GuardedTransitions ==
    \A id \in RecordId, body \in AdminBody :
        LET projectIndex == R_findIndex(rest.projects, id)
            response     == R_putProjectStatus(rest, now, id, body)
        IN ( /\ R_validateAdminAction(body)
             /\ body.action \in {"approve", "verify"}
             /\ projectIndex # 0
             /\ ~C14_Allowed(body.action, rest.projects[projectIndex].status) )
           => /\ response.status = 400
              /\ response.st = rest

\* C15: REST API: a 'verify' request on a project whose status is already
\* 'verified' leaves the stored project record, verifiedAt and lastModified
\* included, as it was.
C15_VerifyIdempotent ==
    \A id \in RecordId, body \in AdminBody :
        LET projectIndex == R_findIndex(rest.projects, id) IN
        ( /\ R_validateAdminAction(body)
          /\ body.action = "verify"
          /\ projectIndex # 0
          /\ rest.projects[projectIndex].status = "verified" )
        => R_putProjectStatus(rest, now, id, body).st.projects[projectIndex]
              = rest.projects[projectIndex]

\* C16: simple contract: changeProjectStatus(p, Suspended) called by an
\* admin succeeds for every existing project p whose status is not
\* Suspended, however p reached its status.
C16_SuspendAlwaysPossible ==
    \A sender \in simple.ADMIN_ROLE, p \in ProjectId :
        (simple.projects[p].id # 0 /\ simple.projects[p].status # "Suspended")
        => /\ S_changeProjectStatus_ok(simple, sender, p, "Suspended")
           /\ S_changeProjectStatus(simple, sender, now, p, "Suspended")
                 .projects[p].status = "Suspended"

\* the response refuses the request and leaves the files as they are
C17_Forbidden(response) == response.status = 403 /\ response.st = rest

\* C17: REST API: whichever accounts hold the admin or verifier role, a
\* well-formed PUT /projects/:id/status, PUT /stakeholders/:id/approve or
\* PUT /mrv-data/:id/verify on a stored record by an account outside them
\* is answered with a forbidden error and changes no stored record.
C17_ForbiddenWithoutRole ==
    \A holders \in SUBSET Address, id \in RecordId, body \in AdminBody :
        (R_validateAdminAction(body) /\ body.adminAddress \notin holders)
        => /\ R_findIndex(rest.projects, id) # 0
                => C17_Forbidden(R_putProjectStatus(rest, now, id, body))
           /\ R_findIndex(rest.stakeholders, id) # 0
                => C17_Forbidden(R_putStakeholderApprove(rest, now, id, body))
           /\ R_findIndex(rest.mrv_data, id) # 0
                => C17_Forbidden(R_putMrvDataVerify(rest, now, id, body))

S_isApproved(st, a) ==
    /\ st.stakeholders[a].stakeholderAddress # ZeroAddr
    /\ st.stakeholders[a].approved

F_isApproved(st, a) ==
    /\ st.stakeholderByAddress[a] # 0
    /\ F_stakeholder(st, st.stakeholderByAddress[a]).isApproved
    /\ F_stakeholder(st, st.stakeholderByAddress[a]).approvedBy
          \in st.ADMIN_ROLE

\* registerProject by a caller without an approved stakeholder record
\* reverts, in either contract
C18_Refused ==
    \A sender \in Address, nameLen \in StrLen, locationLen \in StrLen,
       area \in 0..MaxArea :
        /\ ~S_isApproved(simple, sender)
              => /\ ~S_registerProject_ok(simple, sender, nameLen,
                                          locationLen, area)
                 /\ S_registerProject(simple, sender, now, nameLen,
                                      locationLen, area) = simple
        /\ ~F_isApproved(full, sender)
              => /\ ~F_registerProject_ok(full, sender, nameLen,
                                          locationLen, area)
                 /\ F_registerProject(full, sender, now, nameLen,
                                      locationLen, area) = full

\* the owner of a project registered in this step was an approved
\* stakeholder before the step
C18_Step ==
    /\ simple'.nextProjectId # simple.nextProjectId =>
          S_isApproved(simple,
                       simple'.projects[simple.nextProjectId].owner)
    /\ Len(full'.projects) # Len(full.projects) =>
          F_isApproved(full, full'.projects[Len(full'.projects)].owner)

\* C18: both contracts: registerProject succeeds only for a caller with a
\* registered stakeholder record that an admin approved; the owner of
\* every project was an approved stakeholder when it was registered.
C18_OwnerWasApproved == []C18_Refused /\ [][C18_Step]_vars

\* a project registered by the approved stakeholder while the deployer,
\* who has no stakeholder record, would be refused
C18_Witness ==
    /\ ~full.paused
    /\ full.stakeholderByAddress[Deployer] = 0
    /\ \E p \in DOMAIN full.projects :
          F_isApproved(full, full.projects[p].owner)

\* an approval request for an approved stakeholder changes nothing stored
C19_SecondApproval ==
    /\ \A id \in RecordId, body \in AdminBody :
          LET stakeholderIndex == R_findIndex(rest.stakeholders, id) IN
          ( /\ R_validateAdminAction(body)
            /\ stakeholderIndex # 0
            /\ rest.stakeholders[stakeholderIndex].status = "approved" )
          => R_putStakeholderApprove(rest, now, id, body)
                .st.stakeholders[stakeholderIndex]
                = rest.stakeholders[stakeholderIndex]
    /\ \A sender \in Address, s \in DOMAIN full.stakeholders :
          full.stakeholders[s].isApproved
             => F_approveStakeholder(full, sender, now, s) = full

\* an approved stakeholder stays approved
C19_Step ==
    /\ \A i \in DOMAIN rest.stakeholders :
          rest.stakeholders[i].status = "approved"
             => rest'.stakeholders[i].status = "approved"
    /\ \A s \in DOMAIN full.stakeholders :
          full.stakeholders[s].isApproved => full'.stakeholders[s].isApproved

\* C19: stakeholder approval is one-way and happens once: an approved
\* stakeholder never becomes unapproved, and a second approval request for
\* it does not change its stored record.
C19_ApprovalOnce == []C19_SecondApproval /\ [][C19_Step]_vars

C20_Unknown(records, id) == \A i \in DOMAIN records : records[i].id # id

C20_NotFound(response) == response.status = 404 /\ response.st = rest

\* C20: REST API: a well-formed PUT /projects/:id/status,
\* PUT /stakeholders/:id/approve, PUT /mrv-data/:id/verify or
\* PUT /notifications/:id/read naming an id that is not in the collection
\* is answered 404 and leaves every file as it was.
C20_UnknownIdIs404 ==
    \A id \in RecordId :
        /\ C20_Unknown(rest.notifications, id)
              => C20_NotFound(R_putNotificationRead(rest, now, id))
        /\ \A body \in AdminBody :
              R_validateAdminAction(body) =>
                 /\ C20_Unknown(rest.projects, id)
                       => C20_NotFound(R_putProjectStatus(rest, now, id, body))
                 /\ C20_Unknown(rest.stakeholders, id)
                       => C20_NotFound(
                              R_putStakeholderApprove(rest, now, id, body))
                 /\ C20_Unknown(rest.mrv_data, id)
                       => C20_NotFound(
                              R_putMrvDataVerify(rest, now, id, body))

\* every collection holds a record that a request has changed, and the id
\* MaxTime is in none of them
C20_Witness ==
    /\ rest.projects # <<>> /\ rest.projects[1].status # "pending"
    /\ rest.stakeholders # <<>> /\ rest.stakeholders[1].status = "approved"
    /\ rest.mrv_data # <<>> /\ rest.mrv_data[1].verified
    /\ rest.notifications # <<>> /\ rest.notifications[1].read
    /\ C20_Unknown(rest.projects, MaxTime)
    /\ C20_Unknown(rest.stakeholders, MaxTime)
    /\ C20_Unknown(rest.mrv_data, MaxTime)
    /\ C20_Unknown(rest.notifications, MaxTime)

C21_Invalid(nameLen, locationLen, area) ==
    area <= 0 \/ nameLen = 0 \/ locationLen = 0

\* C21: registering a project with an area of zero or less, or with an empty
\* name or location, fails in all three programs (400 from POST /projects,
\* a revert in both contracts): the state after the call is the state before
\* it, so no record is added and no counter changes.
C21_InvalidRegistrationFails ==
    /\ \A sender \in Address, nameLen \in StrLen, locationLen \in StrLen,
          area \in 0..MaxArea :
          C21_Invalid(nameLen, locationLen, area) =>
             /\ ~S_registerProject_ok(simple, sender, nameLen, locationLen,
                                      area)
             /\ S_registerProject(simple, sender, now, nameLen, locationLen,
                                  area) = simple
             /\ ~F_registerProject_ok(full, sender, nameLen, locationLen,
                                      area)
             /\ F_registerProject(full, sender, now, nameLen, locationLen,
                                  area) = full
    /\ \A body \in ProjectBody :
          C21_Invalid(body.nameLen, body.locationLen, body.area) =>
             R_postProjects(rest, now, body) = [st |-> rest, status |-> 400]

\* projects.json holds a project, and of two requests that differ in the
\* area alone the one with area 0 is refused where the other is accepted
C21_Witness ==
    /\ target = "rest"
    /\ rest.projects # <<>>
    /\ \E body \in ProjectBody :
          /\ body.area = 0
          /\ R_postProjects(rest, now, body).status = 400
          /\ R_postProjects(rest, now, [body EXCEPT !.area = 1]).status = 201

\* every accepted POST /projects appends one record, which is pending and
\* holds no credits, whatever the body carries
C22_CreatedPending ==
    \A body \in ProjectBody :
        LET response == R_postProjects(rest, now, body)
            projects == response.st.projects
        IN response.status = 201 =>
              /\ Len(projects) = Len(rest.projects) + 1
              /\ projects[Len(projects)].status = "pending"
              /\ projects[Len(projects)].actualCredits = 0

\* a step that adds a record adds a pending one without credits and leaves
\* the status of the others; a step that changes the status of a stored
\* record is a PUT /projects/:id/status
C22_StatusStep ==
    /\ Len(rest'.projects) >= Len(rest.projects)
    /\ Len(rest'.projects) > Len(rest.projects) =>
          /\ rest'.projects[Len(rest'.projects)].status = "pending"
          /\ rest'.projects[Len(rest'.projects)].actualCredits = 0
          /\ \A i \in 1..Len(rest.projects) :
                rest'.projects[i].status = rest.projects[i].status
    /\ (\E i \in 1..Len(rest.projects) :
           rest'.projects[i].status # rest.projects[i].status) =>
          \E id \in RecordId, body \in AdminBody :
             /\ R_putProjectStatus(rest, now, id, body).status = 200
             /\ rest' = R_putProjectStatus(rest, now, id, body).st

\* C22: every project record created by POST /projects is stored with
\* status 'pending' and actualCredits 0 whatever the request body carries,
\* and afterwards its status changes only through PUT /projects/:id/status.
C22_PendingUntilReviewed == []C22_CreatedPending /\ [][C22_StatusStep]_vars

\* two records were created, the first has been reviewed since, the second
\* took its id from a body carrying fields of its own and is pending, and a
\* body carrying status 'verified' and credits is accepted
C22_Witness ==
    /\ Len(rest.projects) = 2
    /\ rest.projects[1].status = "verified"
    /\ rest.projects[2].id # rest.projects[2].createdAt
    /\ rest.projects[2].status = "pending"
    /\ rest.projects[2].actualCredits = 0
    /\ \E body \in ProjectBody :
          /\ body.status = "verified"
          /\ body.actualCredits = MaxCarbon
          /\ R_postProjects(rest, now, body).status = 201

\* C23: the id of every record created through the REST API is the one the
\* server assigns (the time of the request), never a value of the request
\* body: a step that adds a record to projects.json or to mrv_data.json
\* adds one whose id is the server's clock.
C23_ServerAssignedIds ==
    [][/\ Len(rest'.projects) > Len(rest.projects) =>
             rest'.projects[Len(rest'.projects)].id = now
       /\ Len(rest'.mrv_data) > Len(rest.mrv_data) =>
             rest'.mrv_data[Len(rest'.mrv_data)].id = now]_vars

\* the status that an accepted PUT /projects/:id/status leaves in the record
C24_StatusOf(action) ==
    CASE action = "verify" -> "verified"
      [] action = "approve" -> "active"
      [] action = "reject" -> "rejected"
      [] action = "suspend" -> "suspended"
      [] OTHER -> ""

\* projects.json holds, for the project of request r, the status that r or
\* another request answered 200 on the same project asked for
C24_Applied(r) ==
    LET i == R_findIndex(rest.projects, inflight[r].id)
    IN /\ i # 0
       /\ \E q \in Request :
             /\ inflight[q].pc = "answered" /\ inflight[q].status = 200
             /\ inflight[q].id = inflight[r].id
             /\ rest.projects[i].status = C24_StatusOf(inflight[q].action)

\* two requests on different projects have both been answered 200
C24_BothSucceeded(r1, r2) ==
    /\ r1 # r2
    /\ inflight[r1].pc = "answered" /\ inflight[r1].status = 200
    /\ inflight[r2].pc = "answered" /\ inflight[r2].status = 200
    /\ inflight[r1].id # inflight[r2].id

C25_WriteFailureIs500 ==
    \A body \in ProjectBody, readOk \in BOOLEAN :
        R_validateProjectRegistration(body) =>
           R_postProjectsIO(rest, now, body, readOk, FALSE).status = 500

\* C26: when reading or parsing the collection file fails the file is not
\* rewritten, so a create request never replaces the collection by one that
\* holds only the new record: every step keeps the records that
\* projects.json held, in their places.
C26_ReadFailureKeepsFile ==
    [][\A i \in 1..Len(rest.projects) :
          /\ i <= Len(rest'.projects)
          /\ rest'.projects[i].id = rest.projects[i].id
          /\ rest'.projects[i].createdAt = rest.projects[i].createdAt]_vars

C27_SimpleVerified(p) ==
    simple.projects[p].id # 0 /\ simple.projects[p].status = "Verified"

C27_FullVerified(p) ==
    F_project(full, p).id # 0 /\ F_project(full, p).status = "Verified"

\* C27 as stated: in one of the two contracts a call that verifies a project
\* whose status is already Verified is accepted and changes
\* totalVerifiedProjects (in the contract that holds a Verified project, some
\* caller's verifyProject, changeProjectStatus or updateProjectStatus to
\* Verified on it is accepted and leaves another count).
C27_DoubleToggle ==
    \A p \in ProjectId :
        /\ C27_SimpleVerified(p) =>
              \E sender \in Address :
                 \/ /\ S_verifyProject_ok(simple, sender, p)
                    /\ S_verifyProject(simple, sender, now, p)
                          .totalVerifiedProjects
                          # simple.totalVerifiedProjects
                 \/ /\ S_changeProjectStatus_ok(simple, sender, p, "Verified")
                    /\ S_changeProjectStatus(simple, sender, now, p,
                                             "Verified").totalVerifiedProjects
                          # simple.totalVerifiedProjects
        /\ C27_FullVerified(p) =>
              \E sender \in Address :
                 /\ F_updateProjectStatus_ok(full, sender, p, "Verified")
                 /\ F_updateProjectStatus(full, sender, now, p, "Verified")
                       .totalVerifiedProjects # full.totalVerifiedProjects

\* C27 as the code has it: in both contracts every call that verifies a
\* project whose status is already Verified reverts, whoever calls, and so
\* leaves totalVerifiedProjects and the rest of the storage as they were.
C27_VerifiedIsNotVerifiedAgain ==
    \A p \in ProjectId, sender \in Address :
        /\ C27_SimpleVerified(p) =>
              /\ ~S_verifyProject_ok(simple, sender, p)
              /\ S_verifyProject(simple, sender, now, p) = simple
              /\ ~S_changeProjectStatus_ok(simple, sender, p, "Verified")
              /\ S_changeProjectStatus(simple, sender, now, p, "Verified")
                    = simple
        /\ C27_FullVerified(p) =>
              /\ ~F_updateProjectStatus_ok(full, sender, p, "Verified")
              /\ F_updateProjectStatus(full, sender, now, p, "Verified")
                    = full

\* the simple contract holds a Verified project and a verifier calls
\* verifyProject on it
C27_Witness ==
    \E p \in ProjectId, sender \in Address :
        /\ C27_SimpleVerified(p)
        /\ sender \in simple.VERIFIER_ROLE
        /\ ~S_verifyProject_ok(simple, sender, p)

\* C28: the name and index lookups of BlockchainAPI are a bidirectional
\* mapping over the enums of the registry contract: for every ecosystem
\* type and stakeholder type index the contract defines, its name is not
\* 'Unknown' and the index found for its name is the index itself, not the
\* fallback 0; and every project status index the contract defines has a
\* name.
C28_BidirectionalLookups ==
    /\ lookup.ecosystem < Len(F_EcosystemType) =>
          /\ lookup.ecosystemName # "Unknown"
          /\ lookup.ecosystemEnum \in {-1, lookup.ecosystem}
    /\ lookup.stakeholder < Len(F_StakeholderType) =>
          /\ lookup.stakeholderName # "Unknown"
          /\ lookup.stakeholderEnum \in {-1, lookup.stakeholder}
    /\ lookup.status < Len(F_ProjectStatus) =>
          lookup.statusName # "Unknown"

\* C29: for every client and every interval of WindowMs milliseconds the
\* middleware lets at most MaxRequests requests of the client through: at
\* any time, at most MaxRequests of the client's requests were passed to the
\* next handler in the WindowMs milliseconds that end now.
C29_AtMostMaxPerWindow ==
    \A c \in Client : Len(Recent(limiter.passed[c], now)) <= MaxRequests

\* C30: getCarbonCreditBalance(a) and mintCarbonCredits(a, ...) running
\* concurrently on one BlockchainAPI object: once mintCarbonCredits has
\* resolved, the cache holds no balance of a that was read before the mint
\* (a cached balance of a is the balance after the mint), and a
\* getCarbonCreditBalance(a) that starts after that never returns the
\* balance before the mint.
C30_NoStaleBalanceAfterMint ==
    api.mint.pc = "resolved" =>
       /\ api.mint.to \in DOMAIN api.cache =>
             toWei(api.cache[api.mint.to].data) = api.balance[api.mint.to]
       /\ \A g \in GetCall :
             (/\ api.gets[g].pc = "returned"
              /\ api.gets[g].afterMint
              /\ api.gets[g].address = api.mint.to)
                => toWei(api.gets[g].returned) = api.balance[api.mint.to]

\* the carbonSequestration of the Verified MRV records of project p
C31_VerifiedSequestration(p) ==
    LET records == SelectSeq(full.mrvData,
                       LAMBDA d : d.projectId = p /\ d.status = "Verified")
    IN SumSeq([i \in 1..Len(records) |-> records[i].carbonSequestration])

C31_CreditsAreSums ==
    /\ \A p \in DOMAIN full.projects :
          full.projects[p].actualCarbonCredits = C31_VerifiedSequestration(p)
    /\ full.totalCarbonSequestered =
          SumSeq([p \in DOMAIN full.projects |->
                     full.projects[p].actualCarbonCredits])

\* a Verified record stays Verified with its amount, and a step that raises
\* a project's credits raises them by the amount of the one record that the
\* step made Verified
C31_CreditedOnce ==
    /\ \A d \in DOMAIN full.mrvData :
          full.mrvData[d].status = "Verified" =>
             /\ full'.mrvData[d].status = "Verified"
             /\ full'.mrvData[d].carbonSequestration
                   = full.mrvData[d].carbonSequestration
    /\ \A p \in DOMAIN full.projects :
          full'.projects[p].actualCarbonCredits
             # full.projects[p].actualCarbonCredits =>
                \E d \in DOMAIN full.mrvData :
                   /\ full.mrvData[d].projectId = p
                   /\ full.mrvData[d].status # "Verified"
                   /\ full'.mrvData[d].status = "Verified"
                   /\ full'.projects[p].actualCarbonCredits
                         = full.projects[p].actualCarbonCredits
                              + full.mrvData[d].carbonSequestration
                   /\ \A e \in DOMAIN full.mrvData \ {d} :
                         full'.mrvData[e].status = full.mrvData[e].status

\* C31: in the full contract, in every reachable state each project's
\* actualCarbonCredits is the sum of carbonSequestration over its Verified
\* MRV records, totalCarbonSequestered is the sum of actualCarbonCredits
\* over all projects, and no MRV record is credited more than once.
C31_CreditsMatchVerifiedRecords ==
    []C31_CreditsAreSums /\ [][C31_CreditedOnce]_vars

\* a project holds the credits of two Verified records
C31_Witness ==
    \E p \in DOMAIN full.projects :
        /\ Len(SelectSeq(full.mrvData,
                   LAMBDA d : /\ d.projectId = p
                              /\ d.status = "Verified"
                              /\ d.carbonSequestration > 0)) = 2
        /\ full.projects[p].actualCarbonCredits >= 2

\* C32: in the simple contract the two stored copies of each MRV submission
\* agree in every reachable state: what getProjectMRVData(p) returns is the
\* sequence of the records of mrvDataById that were submitted for p, with
\* the same verified, verifier and verifiedAt.
C32_CopiesAgree ==
    \A p \in ProjectId :
        S_getProjectMRVData(simple, p)
           = SelectSeq(simple.mrvDataById,
                 LAMBDA d : d.timestamp # 0 /\ d.projectId = p)

\* C33: an MRV record created by POST /mrv-data is returned by GET /mrv-data
\* on a page that covers it and is counted in totalMRVSubmissions of GET
\* /analytics/overview; once verified through PUT /mrv-data/:id/verify it
\* is counted in verifiedMRVData.
C33_CreatedRecordsAreRead ==
    LET analytics == R_getAnalyticsOverview(rest).analytics
        created   == rest.mrv_data
    IN /\ \A i \in 1..Len(created) :
             \E page \in 1..MaxMRV :
                \E j \in 1..Len(R_getMrvData(rest, 0, page, 1).data) :
                   R_getMrvData(rest, 0, page, 1).data[j] = created[i]
       /\ analytics.totalMRVSubmissions >= Len(created)
       /\ analytics.verifiedMRVData
             >= Len(SelectSeq(created, LAMBDA d : d.verified))

\* C34: in every collection the stored records have pairwise distinct ids
\* after any sequence of create requests, two creations within the same
\* millisecond included; stated here for the records that carry the id the
\* server assigned (the time of their creation), in projects.json and in
\* mrv_data.json.
C34_DistinctIds ==
    /\ \A i, j \in 1..Len(rest.projects) :
          (/\ i # j
           /\ rest.projects[i].id = rest.projects[i].createdAt
           /\ rest.projects[j].id = rest.projects[j].createdAt)
             => rest.projects[i].id # rest.projects[j].id
    /\ \A i, j \in 1..Len(rest.mrv_data) :
          (/\ i # j
           /\ rest.mrv_data[i].id = rest.mrv_data[i].timestamp
           /\ rest.mrv_data[j].id = rest.mrv_data[j].timestamp)
             => rest.mrv_data[i].id # rest.mrv_data[j].id

\* a step leaves every deactivated project as it was: isActive stays false,
\* and the step changes neither its status, nor the number of MRV records
\* held for it, nor its actualCarbonCredits, nor its totalAreaRestored
C35_FrozenStep ==
    \A p \in DOMAIN full.projects :
        ~full.projects[p].isActive =>
           /\ ~full'.projects[p].isActive
           /\ full'.projects[p].status = full.projects[p].status
           /\ Len(SelectSeq(full'.mrvData, LAMBDA d : d.projectId = p))
                 = Len(SelectSeq(full.mrvData, LAMBDA d : d.projectId = p))
           /\ full'.projects[p].actualCarbonCredits
                 = full.projects[p].actualCarbonCredits
           /\ full'.projects[p].totalAreaRestored
                 = full.projects[p].totalAreaRestored

\* C35: in the full contract a deactivated project is frozen: after
\* deactivateProject(p) its isActive never becomes true again and no later
\* operation changes its status, accepts a new MRV record for it, or changes
\* its actualCarbonCredits or totalAreaRestored.
C35_DeactivatedIsFrozen == [][C35_FrozenStep]_vars

\* a step taken while the contract is paused, other than unpause and pause
\* themselves, leaves every project's status and actualCredits, every MRV
\* record's verified flag, every stakeholder's approved flag and the two
\* totals as they were
C36_PausedStep ==
    simple.paused =>
       /\ \A p \in ProjectId :
             /\ simple'.projects[p].status = simple.projects[p].status
             /\ simple'.projects[p].actualCredits
                   = simple.projects[p].actualCredits
       /\ \A d \in DataId :
             simple'.mrvDataById[d].verified = simple.mrvDataById[d].verified
       /\ \A a \in Address :
             simple'.stakeholders[a].approved = simple.stakeholders[a].approved
       /\ simple'.totalCarbonSequestered = simple.totalCarbonSequestered
       /\ simple'.totalVerifiedProjects = simple.totalVerifiedProjects

\* C36: while the simple contract is paused, no call changes any project's
\* status or actualCredits, any MRV record's verified flag, any
\* stakeholder's approved flag, or the totals totalCarbonSequestered and
\* totalVerifiedProjects.
C36_PausedChangesNothing == [][C36_PausedStep]_vars

\* the amounts of the credits that are retired in `after` and were not in
\* `before`
C37_NewlyRetired(before, after) ==
    SumSeq([i \in 1..Len(before) |->
               IF after[i].retired /\ ~before[i].retired
               THEN before[i].amount ELSE 0])

\* C37: POST /carbon-credits/retire succeeds whenever the sum of the
\* owner's unretired credit amounts is at least the requested amount, and
\* answers 400 'Insufficient credits to retire' only when that sum is
\* smaller; on success the amounts newly marked retired sum to exactly
\* the requested amount, and on failure the credits collection is unchanged.
C37_RetireMatchesBalance ==
    \A body \in RetireBody :
        (body.amount > 0 /\ body.reason /\ body.ownerAddress # 0) =>
           LET balance == R_getCarbonCreditsBalance(rest, body.ownerAddress)
               r == R_postCarbonCreditsRetire(rest, now, body)
           IN /\ balance >= body.amount => r.status = 200
              /\ r.error = "Insufficient credits to retire"
                    => balance < body.amount
              /\ r.status = 200 =>
                    C37_NewlyRetired(rest.carbon_credits,
                                     r.st.carbon_credits) = body.amount
              /\ r.status # 200 => r.st = rest

\* C38: in sequential use of one BlockchainAPI object, after a write method
\* resolves no read method returns a value cached before that write for data
\* the write changed: between two calls, getProject(projectId) and
\* getProjectMRVData(projectId) return what the contract holds at the time
\* of the read, in particular after verifyMRVData(dataId) has resolved.
C38_ReadsFollowWrites ==
    \A projectId \in ProjectId :
        /\ S_getProject_ok(simple, projectId) =>
              A_getProject(api, simple, now, projectId).data
                 = A_formattedProject(simple, projectId)
        /\ A_getProjectMRVData(api, simple, now, projectId).data
              = A_formattedMRVData(simple, projectId)

C39_Done == api.pc \in {"returned", "thrown"}

\* at most maxRetries polls; a poll that yields a receipt ends the call with
\* that receipt, and it is the first such poll; the error is thrown only after
\* maxRetries polls that all yielded none
C39_Polls ==
    /\ Len(api.yields) <= api.maxRetries
    /\ \A k \in 1..Len(api.yields) :
          api.yields[k] = "receipt" =>
             k = Len(api.yields) /\ api.pc = "returned"
    /\ api.pc = "returned" =>
          api.yields # <<>> /\ api.yields[Len(api.yields)] = "receipt"
    /\ api.pc = "thrown" =>
          /\ Len(api.yields) = api.maxRetries
          /\ \A k \in 1..Len(api.yields) : api.yields[k] # "receipt"

\* C39: getTransactionReceipt(txHash, maxRetries) always terminates: it polls
\* at most maxRetries times, returns the first non-null receipt as soon as a
\* poll yields one (a failed poll counts as a missing receipt), and throws
\* 'Failed to get transaction receipt after retries' when all polls yield
\* none.
C39_ReceiptPollingTerminates == []C39_Polls /\ <>C39_Done

\* a receipt is returned by the third poll, after a failed poll
C39_Witness ==
    /\ api.pc = "returned"
    /\ Len(api.yields) = 3
    /\ \E k \in 1..2 : api.yields[k] = "failed"

====
